---- MODULE Spec2Model ----
(***************************************************************************)
(* A model of the spiff flow engine (flow/flow.go) over the annotated node *)
(* model of the yaml package.  One behaviour is one run of Flow: the       *)
(* fixed-point driver re-flows the tree with `flow` until a pass changes   *)
(* nothing.                                                                *)
(***************************************************************************)
EXTENDS Integers, Sequences, FiniteSets, TLC

VARIABLES root, source, stubs, tags, pc, passes

vars == <<root, source, stubs, tags, pc, passes>>

(***************************************************************************)
(* Bounds                                                                  *)
(***************************************************************************)
MaxPasses == 6

(***************************************************************************)
(* Annotation and AnnotatedNode (yaml package)                             *)
(***************************************************************************)
NoPath == << >>

EmptyAnnotation ==
    [redirectPath |-> NoPath, replace |-> FALSE, preferred |-> FALSE,
     merged |-> FALSE, keyName |-> "", error |-> FALSE, failed |-> FALSE,
     undefined |-> FALSE, issue |-> "", tag |-> "", flags |-> {},
     template |-> [k |-> "nil"]]

\* values: the variants of Node.Value()
Nil == [k |-> "nil"]
Str(s) == [k |-> "str", s |-> s]
MapV(m) == [k |-> "map", m |-> m]
ListV(l) == [k |-> "list", l |-> l]
ExprV(e) == [k |-> "expr", e |-> e]
TemplateV(body, path, env) == [k |-> "template", body |-> body, path |-> path, env |-> env]

IsMap(n) == n.v.k = "map"
IsList(n) == n.v.k = "list"
IsExpr(n) == n.v.k = "expr"
IsString(n) == n.v.k = "str"
IsNil(n) == n.v.k = "nil"
IsTemplate(n) == n.v.k = "template"

NewNode(value, sourcePath) == [v |-> value, s |-> sourcePath, a |-> EmptyAnnotation]

ReplaceValue(value, node) == [v |-> value, s |-> node.s, a |-> node.a]

SubstituteNode(value, node) == [v |-> value, s |-> node.s, a |-> node.a]

SetRedirectPath(a, redirect) == [a EXCEPT !.redirectPath = redirect]

SetReplaceFlag(a) == [a EXCEPT !.replace = TRUE]

RedirectNode(value, node, redirect) ==
    [v |-> value, s |-> node.s, a |-> SetRedirectPath(node.a, redirect)]

ReplaceNode(value, node, redirect) ==
    [v |-> value, s |-> node.s, a |-> SetRedirectPath(SetReplaceFlag(node.a), redirect)]

PreferredNode(node) == [node EXCEPT !.a.preferred = TRUE]

MergedNode(node) == [node EXCEPT !.a.merged = TRUE]

AddKeyName(a, keyName) == IF keyName # "" THEN [a EXCEPT !.keyName = keyName] ELSE a

KeyNameNode(node, keyName) == [node EXCEPT !.a = AddKeyName(node.a, keyName)]

AddIssue(a, error, failed, issue) ==
    [a EXCEPT !.issue = IF issue # "" THEN issue ELSE @,
              !.error = error,
              !.failed = failed]

IssueNode(node, error, failed, issue) ==
    [node EXCEPT !.a = AddIssue(node.a, error, failed, issue)]

UndefinedNode(node) == [node EXCEPT !.a.undefined = TRUE]

ReplaceFlag(n) == n.a.replace
RedirectPath(n) == n.a.redirectPath
Preferred(n) == n.a.preferred
KeyName(n) == n.a.keyName
Undefined(n) == n.a.undefined
Failed(n) == n.a.failed
Issue(n) == n.a.issue

Merged(n) == n.a.merged \/ ReplaceFlag(n) \/ Len(RedirectPath(n)) > 0

\* AnnotatedNode.EquivalentToNode: the same value structure, annotations aside
RECURSIVE EquivalentToNode(_, _)
EquivalentToNode(n, o) ==
    IF n.v.k # o.v.k THEN FALSE
    ELSE IF IsMap(n)
    THEN /\ DOMAIN n.v.m = DOMAIN o.v.m
         /\ \A key \in DOMAIN n.v.m : EquivalentToNode(n.v.m[key], o.v.m[key])
    ELSE IF IsList(n)
    THEN /\ Len(n.v.l) = Len(o.v.l)
         /\ \A i \in 1..Len(n.v.l) : EquivalentToNode(n.v.l[i], o.v.l[i])
    ELSE n.v = o.v

\* parts of the yaml package the flow engine calls (tag and bit flags)
\* a standard node: not merged, replaced or redirected by a directive of the
\* document, and not preferred over the stubs
StandardOverride(n) ==
    ~n.a.merged /\ ~ReplaceFlag(n) /\ Len(RedirectPath(n)) = 0 /\ ~Preferred(n)

Flags(n) == n.a.flags

AddFlags(node, flags) == [node EXCEPT !.a.flags = @ \cup flags]

SetTag(node, tag) == [node EXCEPT !.a.tag = tag]

Tag(n) == n.a.tag

Template(n) == n.a.template

NewDynamicNode(value, template, sourcePath) ==
    [v |-> value, s |-> sourcePath, a |-> [EmptyAnnotation EXCEPT !.template = template]]

\* NodeFlags.Overridden: the flags a node keeps when a stub value replaces it
Overridden(flags) == flags \cap {"TEMPORARY", "LOCAL", "STATE"}

\* NodeFlags.PropagateImplied: the flags that mark the entries of a map IMPLIED
PropagateImplied(flags) == flags \cap {"TEMPORARY", "LOCAL"} # {}

(***************************************************************************)
(* Map keys.  Go maps are unordered; yaml.GetSortedKeys gives the keys in  *)
(* byte order, KeyOrder lists the keys of the model in that order.         *)
(***************************************************************************)
MERGEKEY == "<<<"

KeyOrder == <<"", "-", "1", "2", "3", "<<", "<<<", "a", "a,b,c", "a-b", "b", "c", "do",
              "for", "i", "id", "index", "items", "j", "key:id", "key:nm", "list", "m",
              "mapkey", "name", "nm", "p", "q", "v", "values", "x,i", "z">>

Keys == {KeyOrder[i] : i \in 1..Len(KeyOrder)}

GetSortedKeys(m) == SelectSeq(KeyOrder, LAMBDA k : k \in DOMAIN m)

Reverse(s) == [i \in 1..Len(s) |-> s[Len(s) + 1 - i]]

\* the orders in which a `range` over a Go map may visit the keys
RangeOrders == {KeyOrder, Reverse(KeyOrder)}

RangeKeys(m, ord) == SelectSeq(ord, LAMBDA k : k \in DOMAIN m)

\* strings.Index(key, ":") > 0 and key[:split] == "key"
HasKeyPrefix(key) == key \in {"key:id", "key:nm"}

\* key[split+1:]
KeySuffix(key) == CASE key = "key:id" -> "id"
                    [] key = "key:nm" -> "nm"
                    [] OTHER -> key

IntStr == <<"0", "1", "2", "3", "4", "5", "6", "7", "8", "9">>

\* fmt.Sprintf("[%d]", index)
IndexStep(index) == "[" \o IntStr[index + 1] \o "]"

EmptyMap == [x \in {} |-> Nil]

\* the map m without key k
Without(m, k) == [x \in DOMAIN m \ {k} |-> m[x]]

\* the map m with key k set to node n
With(m, k, n) == [x \in DOMAIN m \cup {k} |-> IF x = k THEN n ELSE m[x]]

(***************************************************************************)
(* Binding: path, stub path, the stubs and the noMerge switch              *)
(***************************************************************************)
NotFound == [found |-> FALSE]
Found(n) == [found |-> TRUE, node |-> n]

\* the identity field of a list looked up by a bare name
ListKey(keyName) == IF keyName = "" THEN "name" ELSE keyName

\* the elements of list node n that path step `step` selects
StepMatches(n, step) ==
    {i \in 1..Len(n.v.l) :
        \/ /\ i <= Len(IntStr)
           /\ step = IndexStep(i - 1)
        \/ /\ IsMap(n.v.l[i])
           /\ \E kn \in DOMAIN n.v.l[i].v.m :
                 /\ IsString(n.v.l[i].v.m[kn])
                 /\ \/ step = kn \o ":" \o n.v.l[i].v.m[kn].v.s
                    \/ /\ kn = ListKey(KeyName(n))
                       /\ step = n.v.l[i].v.m[kn].v.s}

Min(S) == CHOOSE x \in S : \A y \in S : x <= y

RECURSIVE Find(_, _)
Find(n, path) ==
    IF Len(path) = 0 THEN Found(n)
    ELSE IF IsMap(n) THEN
        IF Head(path) \in DOMAIN n.v.m THEN Find(n.v.m[Head(path)], Tail(path))
        ELSE NotFound
    ELSE IF IsList(n) THEN
        IF StepMatches(n, Head(path)) # {}
        THEN Find(n.v.l[Min(StepMatches(n, Head(path)))], Tail(path))
        ELSE NotFound
    ELSE NotFound

\* the first stub that holds a value at path wins
RECURSIVE FindInStubList(_, _)
FindInStubList(ss, path) ==
    IF Len(ss) = 0 THEN NotFound
    ELSE IF Find(Head(ss), path).found THEN Find(Head(ss), path)
    ELSE FindInStubList(Tail(ss), path)

\* range: the order in which this run's `range` loops visit the keys of a map
NewEnvironment(ss, ord) ==
    [path |-> NoPath, stubPath |-> NoPath, stubs |-> ss, noMerge |-> FALSE, range |-> ord,
     scope |-> << >>, local |-> << >>]

FindInStubs(env, path) == FindInStubList(env.stubs, path)

WithPath(env, step) ==
    [env EXCEPT !.path = Append(@, step), !.stubPath = Append(@, step)]

RedirectOverwrite(env, redirect) == [env EXCEPT !.stubPath = redirect]

\* Binding.WithScope: the entries of the map become the innermost scope
WithScope(env, step) == [env EXCEPT !.scope = Append(@, step)]

\* Binding.WithLocalScope: the variables of a control
WithLocalScope(env, inp) == [env EXCEPT !.local = inp]

NoMerge(env) == env.noMerge

\* yaml.FindString: the string held by field keyName of a map node
FindString(value, keyName) ==
    IF IsMap(value) /\ keyName \in DOMAIN value.v.m /\ IsString(value.v.m[keyName])
    THEN [ok |-> TRUE, name |-> value.v.m[keyName].v.s]
    ELSE [ok |-> FALSE, name |-> ""]

\* yaml.FindR: the raw node held by field keyName of a map node
FindR(value, keyName) ==
    IF IsMap(value) /\ keyName \in DOMAIN value.v.m
    THEN Found(value.v.m[keyName])
    ELSE NotFound


(***************************************************************************)
(* The DSL as the flow engine sees it: parsing a scalar, the expression    *)
(* kinds the engine matches on (MergeExpr, MarkerExpr) and Evaluate.       *)
(***************************************************************************)
\* yaml.EmbeddedDynaml: the scalars of the model that have the form (( ... ))
DynamlStrings == {"(( merge ))", "(( merge replace ))", "(( merge required ))",
                  "(( merge on id ))", "(( ~~ ))", "(( fail ))", "(( val ))",
                  "(( prefer val ))", "(( &tag:*g (val) ))", "(( &tag:t (val) ))",
                  "(( &temporary (val) ))", "(( merge b ))", "(( merge items ))",
                  "(( &dynamic (val) ))", "(( &dynamic &template (val) ))",
                  "(( merge m ))",
                  "(( ! ))", "(( &template ))", "(( &template (merge) ))",
                  "(( i ))", "(( i * i ))", "(( i j ))"}

EmbeddedDynaml(n) == IsString(n) /\ n.v.s \in DynamlStrings

\* MergeExpr{Path, Redirect, Replace, Required, None, KeyName}
MergeExpr(path, redirect, replace, required, none, keyName) ==
    [t |-> "merge", Path |-> path, Redirect |-> redirect, Replace |-> replace,
     Required |-> required, None |-> none, KeyName |-> keyName]

\* any other expression, opaque to the engine
OpExpr(op) == [t |-> "op", op |-> op]

NoExpr == [t |-> "none"]

\* a reference to variables of the scope, several of them concatenated
RefExpr(names) == [t |-> "ref", names |-> names]

\* the product of two variables of the scope
MulExpr(a, b) == [t |-> "mul", a |-> a, b |-> b]

\* the products of the numbers of the model
Times(a, b) ==
    CASE a = "1" -> b
      [] b = "1" -> a
      [] a = "2" /\ b = "2" -> "4"
      [] a = "2" /\ b = "3" -> "6"
      [] a = "3" /\ b = "2" -> "6"
      [] a = "3" /\ b = "3" -> "9"
      [] OTHER -> ""

\* the strings of the variables names, one after the other
RECURSIVE Concatenation(_, _)
Concatenation(names, local) ==
    IF Len(names) = 0 THEN ""
    ELSE local[Head(names)].v.s \o Concatenation(Tail(names), local)

\* MarkerExpr: a tag, node flags, the TEMPLATE declaration and a wrapped expression
MarkerExpr(tag, flags, template, inner) ==
    [t |-> "marker", tag |-> tag, flags |-> flags, template |-> template, inner |-> inner]

NewTemplateMarker(inner) == MarkerExpr("", {}, TRUE, inner)

\* dynaml.Parse(sub, path, stubPath): a bare merge takes the stub path of its node
Parse(s, path, stubPath) ==
    CASE s = "(( merge ))" ->
            [ok |-> TRUE, e |-> MergeExpr(stubPath, FALSE, FALSE, FALSE, FALSE, "")]
      [] s = "(( merge replace ))" ->
            [ok |-> TRUE, e |-> MergeExpr(stubPath, FALSE, TRUE, TRUE, FALSE, "")]
      [] s = "(( merge required ))" ->
            [ok |-> TRUE, e |-> MergeExpr(stubPath, FALSE, FALSE, TRUE, FALSE, "")]
      [] s = "(( merge on id ))" ->
            [ok |-> TRUE, e |-> MergeExpr(stubPath, FALSE, FALSE, FALSE, FALSE, "id")]
      [] s = "(( merge b ))" ->
            [ok |-> TRUE, e |-> MergeExpr(<<"b">>, TRUE, FALSE, TRUE, FALSE, "")]
      [] s = "(( merge items ))" ->
            [ok |-> TRUE, e |-> MergeExpr(<<"items">>, TRUE, FALSE, TRUE, FALSE, "")]
      [] s = "(( merge m ))" ->
            [ok |-> TRUE, e |-> MergeExpr(<<"m">>, TRUE, FALSE, TRUE, FALSE, "")]
      [] s = "(( ~~ ))" -> [ok |-> TRUE, e |-> OpExpr("undef")]
      [] s = "(( fail ))" -> [ok |-> TRUE, e |-> OpExpr("fail")]
      [] s = "(( val ))" -> [ok |-> TRUE, e |-> OpExpr("val")]
      [] s = "(( prefer val ))" -> [ok |-> TRUE, e |-> OpExpr("prefer")]
      [] s = "(( &tag:*g (val) ))" ->
            [ok |-> TRUE, e |-> MarkerExpr("*g", {}, FALSE, OpExpr("val"))]
      [] s = "(( &tag:t (val) ))" ->
            [ok |-> TRUE, e |-> MarkerExpr("t", {}, FALSE, OpExpr("val"))]
      [] s = "(( &temporary (val) ))" ->
            [ok |-> TRUE, e |-> MarkerExpr("", {"TEMPORARY"}, FALSE, OpExpr("val"))]
      [] s = "(( &dynamic (val) ))" ->
            [ok |-> TRUE, e |-> MarkerExpr("", {"DYNAMIC"}, FALSE, OpExpr("val"))]
      [] s = "(( &dynamic &template (val) ))" ->
            [ok |-> TRUE, e |-> MarkerExpr("", {"DYNAMIC"}, TRUE, OpExpr("val"))]
      [] s = "(( i ))" -> [ok |-> TRUE, e |-> RefExpr(<<"i">>)]
      [] s = "(( i * i ))" -> [ok |-> TRUE, e |-> MulExpr("i", "i")]
      [] s = "(( i j ))" -> [ok |-> TRUE, e |-> RefExpr(<<"i", "j">>)]
      [] s = "(( &template ))" -> [ok |-> TRUE, e |-> NewTemplateMarker(NoExpr)]
      [] s = "(( &template (merge) ))" ->
            [ok |-> TRUE,
             e |-> NewTemplateMarker(MergeExpr(stubPath, FALSE, FALSE, FALSE, FALSE, ""))]
      [] OTHER -> [ok |-> FALSE, e |-> NoExpr]

DefaultInfo ==
    [Issue |-> "", Failed |-> FALSE, RedirectPath |-> NoPath, Replace |-> FALSE,
     Merged |-> FALSE, Preferred |-> FALSE, KeyName |-> "", Undefined |-> FALSE,
     Source |-> "", NodeFlags |-> {}]

EvalResult(value, info, ok) == [value |-> value, info |-> info, ok |-> ok]

\* MergeExpr.Evaluate: the value the stubs hold at the merge path
EvaluateMerge(e, env) ==
    LET base == [DefaultInfo EXCEPT !.KeyName = e.KeyName,
                                    !.RedirectPath = IF e.Redirect THEN e.Path ELSE NoPath]
        hit == FindInStubs(env, e.Path)
    IN  IF hit.found
        THEN EvalResult(hit.node.v,
                        [base EXCEPT !.Replace = e.Replace, !.Merged = TRUE,
                                     !.Source = hit.node.s],
                        TRUE)
        ELSE EvalResult(Nil, [base EXCEPT !.Issue = "not found in any stub"], FALSE)

\* Expression.Evaluate(binding, false) -> (value, info, ok)
RECURSIVE Evaluate(_, _)
Evaluate(e, env) ==
    CASE e.t = "merge" -> EvaluateMerge(e, env)
      [] e.t = "marker" ->
            IF e.inner = NoExpr
            THEN EvalResult(Nil, [DefaultInfo EXCEPT !.NodeFlags = e.flags], TRUE)
            ELSE LET r == Evaluate(e.inner, env)
                 IN  EvalResult(r.value, [r.info EXCEPT !.NodeFlags = @ \cup e.flags], r.ok)
      [] e.t = "op" /\ e.op = "undef" ->
            EvalResult(Nil, [DefaultInfo EXCEPT !.Undefined = TRUE], TRUE)
      [] e.t = "op" /\ e.op = "val" -> EvalResult(Str("val"), DefaultInfo, TRUE)
      [] e.t = "ref" ->
            IF \A i \in 1..Len(e.names) :
                  e.names[i] \in DOMAIN env.local /\ IsString(env.local[e.names[i]])
            THEN EvalResult(Str(Concatenation(e.names, env.local)), DefaultInfo, TRUE)
            ELSE EvalResult(Nil, [DefaultInfo EXCEPT !.Issue = "unresolved"], FALSE)
      [] e.t = "mul" ->
            IF /\ {e.a, e.b} \subseteq DOMAIN env.local
               /\ IsString(env.local[e.a]) /\ IsString(env.local[e.b])
               /\ Times(env.local[e.a].v.s, env.local[e.b].v.s) # ""
            THEN EvalResult(Str(Times(env.local[e.a].v.s, env.local[e.b].v.s)),
                            DefaultInfo, TRUE)
            ELSE EvalResult(Nil, [DefaultInfo EXCEPT !.Issue = "unresolved"], FALSE)
      [] e.t = "op" /\ e.op = "prefer" ->
            EvalResult(Str("val"), [DefaultInfo EXCEPT !.Preferred = TRUE], TRUE)
      [] e.t = "subst" ->
            IF IsExpr(e.tv.body) THEN Evaluate(e.tv.body.v.e, env)
            ELSE EvalResult(e.tv.body.v, DefaultInfo, TRUE)
      [] OTHER -> EvalResult(Nil, [DefaultInfo EXCEPT !.Issue = "unresolved"], FALSE)

\* dynaml.IsResolvedNode: the subtree holds no Expression
RECURSIVE IsResolvedNode(_)
IsResolvedNode(n) ==
    CASE IsExpr(n) -> FALSE
      [] IsMap(n) -> \A k \in DOMAIN n.v.m : IsResolvedNode(n.v.m[k])
      [] IsList(n) -> \A i \in 1..Len(n.v.l) : IsResolvedNode(n.v.l[i])
      [] OTHER -> TRUE

\* the subtrees of node n, n included
RECURSIVE Nodes(_)
Nodes(n) ==
    {n} \cup (IF IsMap(n) THEN UNION {Nodes(n.v.m[k]) : k \in DOMAIN n.v.m}
              ELSE IF IsList(n) THEN UNION {Nodes(n.v.l[i]) : i \in 1..Len(n.v.l)}
              ELSE {})

\* the issues still present in the tree make up the error of the flow
HasIssue(n) == \E x \in Nodes(n) : Issue(x) # ""

\* dynaml.IsControl: a map with the key of a registered control
IsControl(n) == IsMap(n) /\ "for" \in DOMAIN n.v.m

(***************************************************************************)
(* The tag registry of the run: State.SetTag                               *)
(***************************************************************************)
TAG_SCOPE_GLOBAL == "global"
TAG_SCOPE_STREAM == "stream"

\* a tag may be published again from the path that holds it, from no other
TagConflict(reg, tag, path, scope) ==
    \E r \in reg : r.tag = tag /\ r.scope = scope /\ r.path # path

RegistrySetTag(reg, tag, path, scope) ==
    IF TagConflict(reg, tag, path, scope) THEN reg
    ELSE reg \cup {[tag |-> tag, path |-> path, scope |-> scope]}

\* tag[1:] for the tags of the model that start with "*"
GlobalTags == {"*g"}
StripStar(tag) == IF tag = "*g" THEN "g" ELSE tag


(***************************************************************************)
(* flow/flow.go.  Every walker returns R(node, registry): the rewritten    *)
(* node and the tag registry after the SetTag calls made on the way.       *)
(***************************************************************************)
R(n, reg) == [n |-> n, t |-> reg]

\* Go runs statement by statement: y, once x has been computed
Then(x, y) == IF x = x THEN y ELSE y

updateNode(node, flags, tag) ==
    LET n1 == IF (flags \cup Flags(node)) # Flags(node) THEN AddFlags(node, flags) ELSE node
    IN  IF tag # "" /\ tag # Tag(n1) THEN SetTag(n1, tag) ELSE n1

SubstitutionExpr(t) == [t |-> "subst", tv |-> t]

substituteNode(v) ==
    LET t == IF IsTemplate(v) THEN v.v ELSE Template(v)
        ok == t.k = "template"
    IN  IF "DYNAMIC" \in Flags(v) /\ ok
        THEN AddFlags(NewDynamicNode(ExprV(SubstitutionExpr(t)), t, "<substitute>"), Flags(v))
        ELSE v

substituteValue(v, flags) ==
    IF "DYNAMIC" \in flags /\ v.k = "template"
    THEN [value |-> ExprV(SubstitutionExpr(v)), template |-> v]
    ELSE [value |-> v, template |-> Nil]

asTemplate(val, enforceTemplate) ==
    IF val.t = "marker"
    THEN [m |-> IF enforceTemplate THEN [val EXCEPT !.template = TRUE] ELSE val, ok |-> TRUE]
    ELSE IF enforceTemplate
         THEN [m |-> NewTemplateMarker(val), ok |-> TRUE]
         ELSE [m |-> NoExpr, ok |-> FALSE]

\* MarkerExpr.TemplateExpression: the node holding the wrapped expression, Nil if none
TemplateExpression(m, orig) ==
    IF m.inner = NoExpr THEN [none |-> TRUE, n |-> orig]
    ELSE [none |-> FALSE, n |-> SubstituteNode(ExprV(m.inner), orig)]

NewTemplateValue(path, tval, orig, env) == TemplateV(tval, path, env)

\* fault: no merge expression is taken as the optional one
simpleMergeCompatibilityCheck_never(initial, node) == FALSE

simpleMergeCompatibilityCheck(initial, node) ==
    IF ~initial
    THEN IsExpr(node) /\ node.v.e.t = "merge" /\ ~node.v.e.Required
    ELSE FALSE

FlowString(root0, env) ==
    IF ~EmbeddedDynaml(root0) THEN [n |-> root0, err |-> FALSE]
    ELSE LET p == Parse(root0.v.s, env.path, env.stubPath)
         IN  IF ~p.ok THEN [n |-> root0, err |-> TRUE]
             ELSE [n |-> SubstituteNode(ExprV(p.e), root0), err |-> FALSE]

\* fault: the override takes a DEFAULT stub value and replaces an INJECTED node
stubOverride_defaults(root0, env, merged, keyName, replace, redirect, flags, shouldOverride) ==
    IF ~merged /\ StandardOverride(root0) /\ shouldOverride /\ ~NoMerge(env)
       /\ FindInStubs(env, env.stubPath).found
    THEN AddFlags(IF keyName # ""
                  THEN KeyNameNode(substituteNode(FindInStubs(env, env.stubPath).node), keyName)
                  ELSE substituteNode(FindInStubs(env, env.stubPath).node),
                  Overridden(flags))
    ELSE root0

\* fault: the override ignores the merged, replace and redirect marks of the node
stubOverride_unguarded(root0, env, merged, keyName, replace, redirect, flags, shouldOverride) ==
    IF shouldOverride /\ ~NoMerge(env) /\ FindInStubs(env, env.stubPath).found
    THEN AddFlags(IF replace
                  THEN ReplaceNode(FindInStubs(env, env.stubPath).node.v,
                                   FindInStubs(env, env.stubPath).node, redirect)
                  ELSE FindInStubs(env, env.stubPath).node,
                  Overridden(flags))
    ELSE root0

\* fault: the stub override is left out
stubOverride_never(root0, env, merged, keyName, replace, redirect, flags, shouldOverride) == root0

\* _flow, lines 245-266: the stub override after content rewriting
stubOverride(root0, env, merged, keyName, replace, redirect, flags, shouldOverride) ==
    IF ~merged /\ StandardOverride(root0) /\ shouldOverride /\ ~NoMerge(env)
    THEN LET hit == FindInStubs(env, env.stubPath)
         IN  IF hit.found /\ "DEFAULT" \notin Flags(hit.node) /\ "INJECTED" \notin Flags(root0)
             THEN LET r1 == substituteNode(hit.node)
                      r2 == IF keyName # "" THEN KeyNameNode(r1, keyName) ELSE r1
                      r3 == IF replace THEN ReplaceNode(r2.v, r2, redirect)
                            ELSE IF redirect # NoPath THEN RedirectNode(r2.v, r2, redirect)
                            ELSE IF merged THEN MergedNode(r2)
                            ELSE r2
                  IN  AddFlags(r3, Overridden(flags))
             ELSE root0
    ELSE root0

\* _flow, lines 111-145: the marker or the evaluation of the expression
exprEvaluate(root1, env, val, at) ==
    IF at.ok /\ at.m.template
    THEN IF TemplateExpression(at.m, root1).none
         THEN [EvalResult(Nil, [DefaultInfo EXCEPT !.Issue = "empty template value"], FALSE)
                  EXCEPT !.info.NodeFlags = at.m.flags]
         ELSE [EvalResult(NewTemplateValue(env.path, TemplateExpression(at.m, root1).n, root1, env),
                          DefaultInfo, TRUE)
                  EXCEPT !.info.NodeFlags = at.m.flags]
    ELSE Evaluate(val, env)

\* fault: a DYNAMIC flag on a value that is no template is let through
exprDynamic_lenient(root0, root1, ev) ==
    [root1 |-> root1,
     eval |-> IF Template(root0) = Nil
              THEN substituteValue(ev.value, Flags(root0) \cup ev.info.NodeFlags).value
              ELSE ev.value,
     template |-> IF Template(root0) = Nil
                  THEN substituteValue(ev.value, Flags(root0) \cup ev.info.NodeFlags).template
                  ELSE Template(root0),
     flags |-> Flags(root0) \cup ev.info.NodeFlags,
     info |-> ev.info, ok |-> ev.ok,
     early |-> ev.info.Issue = "empty template value",
     replace |-> ReplaceFlag(root0) \/ ev.info.Replace]

\* _flow, lines 146-160: the DYNAMIC flag
exprDynamic(root0, root1, ev) ==
    LET flags == Flags(root0) \cup ev.info.NodeFlags
        dynamic == "DYNAMIC" \in flags
        badDynamic == dynamic /\ ev.value.k # "template" /\ Template(root0) = Nil
        sv == IF dynamic /\ Template(root0) = Nil
              THEN substituteValue(ev.value, flags)
              ELSE [value |-> ev.value, template |-> Template(root0)]
    IN  [root1 |-> root1, eval |-> sv.value, template |-> sv.template, flags |-> flags,
         info |-> IF badDynamic
                  THEN [ev.info EXCEPT !.Issue = "dynamic marker for non-template value node"]
                  ELSE ev.info,
         ok |-> ev.ok /\ ~badDynamic,
         early |-> ev.info.Issue = "empty template value",
         replace |-> ReplaceFlag(root0) \/ ev.info.Replace]

\* _flow, lines 169-222: the node built from a successful evaluation
exprResult(root0, env, x) ==
    LET info == x.info
        src == IF info.Source # "" THEN info.Source ELSE root0.s
        res0 == IF x.template # Nil THEN NewDynamicNode(x.eval, x.template, src)
                ELSE NewNode(x.eval, src)
        res1 == IF x.eval.k = "str" THEN FlowString(res0, env).n ELSE res0
        res2 == IF info.Issue # "" THEN IssueNode(res1, FALSE, info.Failed, info.Issue) ELSE res1
        res3 == IF info.Undefined THEN UndefinedNode(res2) ELSE res2
        res4 == IF Preferred(root0) \/ info.Preferred THEN PreferredNode(res3) ELSE res3
        keyName == IF info.KeyName # "" THEN info.KeyName ELSE KeyName(root0)
        res5 == IF info.KeyName # "" THEN KeyNameNode(res4, keyName) ELSE res4
        redirect == IF info.RedirectPath # NoPath THEN info.RedirectPath ELSE RedirectPath(root0)
        res6 == IF redirect # NoPath THEN RedirectNode(res5.v, res5, redirect) ELSE res5
        res7 == IF x.replace THEN ReplaceNode(res6.v, res6, redirect)
                ELSE IF Merged(root0) \/ info.Merged THEN MergedNode(res6)
                ELSE res6
    IN  [n |-> updateNode(res7, x.flags, Tag(x.root1)), expr |-> IsExpr(res1),
         keyName |-> keyName, redirect |-> redirect]

\* fault: a failed expression is returned without a look at the stubs
exprDone_failedReturned(root0, shouldOverride, x, r) ==
    IF ~x.ok
    THEN [done |-> TRUE,
          n |-> IssueNode(x.root1, TRUE, FALSE,
                          IF x.early /\ ~shouldOverride THEN "empty template value"
                          ELSE x.info.Issue),
          replace |-> x.replace, keyName |-> KeyName(root0),
          redirect |-> RedirectPath(root0), flags |-> x.flags]
    ELSE [done |-> r.expr \/ Merged(r.n) \/ ~shouldOverride \/ Preferred(r.n),
          n |-> r.n, replace |-> ReplaceFlag(r.n),
          keyName |-> r.keyName, redirect |-> r.redirect, flags |-> x.flags]

\* _flow, lines 162-167 and 223-231: return the node or go on to the stub override
exprDone(root0, shouldOverride, x, r) ==
    IF ~x.ok
    THEN [done |-> ~shouldOverride,
          n |-> IssueNode(x.root1, TRUE, FALSE,
                          IF x.early /\ ~shouldOverride THEN "empty template value"
                          ELSE x.info.Issue),
          replace |-> x.replace, keyName |-> KeyName(root0),
          redirect |-> RedirectPath(root0), flags |-> x.flags]
    ELSE [done |-> r.expr \/ Merged(r.n) \/ ~shouldOverride \/ Preferred(r.n),
          n |-> r.n, replace |-> ReplaceFlag(r.n),
          keyName |-> r.keyName, redirect |-> r.redirect, flags |-> x.flags]

exprTagged(root0, at) ==
    IF at.ok /\ at.m.tag # "" /\ Tag(root0) = "" THEN SetTag(root0, at.m.tag) ELSE root0

exprOutcome(root0, root1, env, at) ==
    exprDynamic(root0, root1, exprEvaluate(root1, env, root0.v.e, at))

exprFinish(root0, env, shouldOverride, x) ==
    exprDone(root0, shouldOverride, x, exprResult(root0, env, x))

\* _flow, lines 105-231: the Expression case.  done: the case returned;
\* otherwise n, replace, keyName and redirect are what the stub override goes on with.
flowExpression(root0, env, shouldOverride, enforceTemplate) ==
    exprFinish(root0, env, shouldOverride,
               exprOutcome(root0, exprTagged(root0, asTemplate(root0.v.e, enforceTemplate)),
                           env, asTemplate(root0.v.e, enforceTemplate)))

RECURSIVE flow(_, _, _, _, _)
RECURSIVE _flow(_, _, _, _, _)
RECURSIVE flowMap(_, _, _, _, _)
RECURSIVE flowList(_, _, _, _)

get_inherited_flags(env) ==
    LET hit == FindInStubs(env, env.stubPath)
    IN  IF hit.found
        THEN [flags |-> Flags(hit.node) \cap {"TEMPORARY", "STATE"}, found |-> TRUE,
              stub |-> hit.node]
        ELSE [flags |-> {}, found |-> FALSE, stub |-> NewNode(Nil, "")]

(***************************************************************************)
(* The `for` control: dynaml/control/for.go                                *)
(***************************************************************************)
\* the characters of the variable names of the model
Chars(n) ==
    CASE n = "i" -> <<"i">>
      [] n = "j" -> <<"j">>
      [] n = "x" -> <<"x">>
      [] n = "a-b" -> <<"a", "-", "b">>
      [] n = "-" -> <<"-">>
      [] OTHER -> << >>

\* the characters of the names above that are of the class [a-zA-Z0-9_]
NameChars == {"a", "b", "i", "j", "x"}

\* checkName, lines 306-313: Match finds the pattern anywhere in the name;
\* the result is the error, "" for none
checkName(kind, n) ==
    IF \E c \in 1..Len(Chars(n)) : Chars(n)[c] \in NameChars THEN ""
    ELSE "invalid " \o kind \o " variable name"

\* strings.Split(v, ",") with the parts trimmed
SplitSpec(v) ==
    CASE v = "x,i" -> <<"x", "i">>
      [] v = "a,b,c" -> <<"a", "b", "c">>
      [] OTHER -> <<v>>

\* the strings strings.Compare is asked about, in its order
NameOrder == <<"", "-", "a-b", "i", "index-", "index--", "index-a-b", "index-i", "index-j",
               "j", "x">>

Compare(a, b) ==
    IF a = b THEN 0
    ELSE IF (CHOOSE i \in 1..Len(NameOrder) : NameOrder[i] = a) <
            (CHOOSE i \in 1..Len(NameOrder) : NameOrder[i] = b) THEN -1
    ELSE 1

\* the iterator missing for an empty list or map
NilIterator == [nil |-> TRUE, isMap |-> FALSE, keys |-> << >>, list |-> << >>, m |-> << >>]

newListIterator(values) ==
    [nil |-> FALSE, isMap |-> FALSE, keys |-> << >>, list |-> values, m |-> << >>]

newMapIterator(values) ==
    [nil |-> FALSE, isMap |-> TRUE, keys |-> GetSortedKeys(values), list |-> << >>,
     m |-> values]

\* iterator.Len, Value and Index at the 0-based position i
ItLen(it) == IF it.isMap THEN Cardinality(DOMAIN it.m) ELSE Len(it.list)
ItValue(it, i) == IF it.isMap THEN it.m[it.keys[i + 1]] ELSE it.list[i + 1]
ItIndex(it, i) == IF it.isMap THEN Str(it.keys[i + 1]) ELSE Str(IntStr[i + 1])

\* controlIterator, lines 329-346
controlIterator(name, val) ==
    IF IsList(val)
    THEN [it |-> IF Len(val.v.l) = 0 THEN NilIterator ELSE newListIterator(val.v.l),
          err |-> ""]
    ELSE IF IsMap(val)
    THEN [it |-> IF DOMAIN val.v.m = {} THEN NilIterator ELSE newMapIterator(val.v.m),
          err |-> ""]
    ELSE [it |-> NilIterator, err |-> "control variable requires list or map value"]

\* controlIteration, lines 315-327
controlIteration(name, index, it) ==
    IF checkName("range", name) # ""
    THEN [r |-> [name |-> name, index |-> index, it |-> it],
          err |-> "invalid range variable name"]
    ELSE IF index = ""
    THEN [r |-> [name |-> name, index |-> "index-" \o name, it |-> it], err |-> ""]
    ELSE [r |-> [name |-> name, index |-> index, it |-> it], err |-> checkName("index", index)]

\* the range of the iteration ci is put before the ranges so far
rangeAdded(ci, rs) == [rs |-> <<ci.r>> \o rs, err |-> ci.err]

\* fault: the ranges are sorted by ascending name
Less_ascending(a, b) ==
    IF Compare(a.name, b.name) # 0 THEN Compare(a.name, b.name) < 0
    ELSE Compare(a.index, b.index) < 0

\* iterations.Less, lines 35-41
Less(a, b) ==
    IF Compare(a.name, b.name) # 0 THEN Compare(a.name, b.name) > 0
    ELSE Compare(a.index, b.index) > 0

\* sort.Sort on a short slice: each element moves left while it is Less
RECURSIVE insertRange(_, _)
insertRange(rs, x) ==
    IF Len(rs) = 0 THEN <<x>>
    ELSE IF Less(x, rs[Len(rs)])
    THEN Append(insertRange(SubSeq(rs, 1, Len(rs) - 1), x), rs[Len(rs)])
    ELSE Append(rs, x)

RECURSIVE sortRanges(_)
sortRanges(rs) ==
    IF Len(rs) <= 1 THEN rs
    ELSE insertRange(sortRanges(SubSeq(rs, 1, Len(rs) - 1)), rs[Len(rs)])

\* flowFor, lines 160-169: the iteration of the iterator ci named by the parts
rangeOf(parts, ci, rs) ==
    IF ci.err # "" THEN [rs |-> rs, err |-> ci.err]
    ELSE rangeAdded(controlIteration(parts[Len(parts)],
                                     IF Len(parts) = 2 THEN parts[1] ELSE "", ci.it), rs)

\* flowFor, lines 150-169: the range of the key v, put before the ranges so far
mapRange(v, values, parts, rs) ==
    IF Len(parts) \notin {1, 2}
    THEN [rs |-> rs, err |-> "invalid control variable spec"]
    ELSE rangeOf(parts, controlIterator(parts[Len(parts)], values), rs)

\* flowFor, lines 146-170: the keys of the definition in the order of the range
RECURSIVE mapRanges(_, _, _)
mapRanges(keys, def, acc) ==
    IF Len(keys) = 0 \/ acc.err # "" THEN acc
    ELSE mapRanges(Tail(keys), def,
                   mapRange(Head(keys), def[Head(keys)], SplitSpec(Head(keys)), acc.rs))

\* flowFor, lines 179-191: the names an entry of the list form gives
ListName(v) == IF IsString(v.v.m["name"]) THEN v.v.m["name"].v.s ELSE ""
ListIndex(v) == IF "index" \in DOMAIN v.v.m THEN v.v.m["index"].v.s ELSE ""

\* flowFor, lines 201-215: the fields of an entry of the list form
listEntryFields(v) ==
    IF Cardinality(DOMAIN v.v.m) < 2 \/ Cardinality(DOMAIN v.v.m) > 3
    THEN "control variable list entry requires two or three fields"
    ELSE IF /\ Cardinality(DOMAIN v.v.m) = 3 /\ ListIndex(v) = ""
            /\ ~(DOMAIN v.v.m \subseteq {"name", "values", "index"})
    THEN "invalid control variable list entry field"
    ELSE ""

\* flowFor, lines 193-220: the iteration of the iterator ci of the entry v
listRangeOf(v, ci, fields, rs) ==
    IF ci.err # "" THEN [rs |-> rs, err |-> ci.err]
    ELSE IF fields # "" THEN [rs |-> rs, err |-> fields]
    ELSE rangeAdded(controlIteration(ListName(v), ListIndex(v), ci.it), rs)

\* flowFor, lines 175-220: the range of an entry of the list form, put before
\* the ranges so far
listRange(v, rs) ==
    IF ~IsMap(v) THEN [rs |-> rs, err |-> "control variable list entry requires may"]
    ELSE IF "name" \notin DOMAIN v.v.m
    THEN [rs |-> rs, err |-> "control variable list entry requires name field"]
    ELSE IF "index" \in DOMAIN v.v.m /\ ~IsString(v.v.m["index"])
    THEN [rs |-> rs, err |-> "control index variable name must be of type string"]
    ELSE IF "values" \notin DOMAIN v.v.m
    THEN [rs |-> rs, err |-> "control variable list entry requires values field"]
    ELSE listRangeOf(v, controlIterator(ListName(v), v.v.m["values"]), listEntryFields(v), rs)

\* flowFor, lines 173-221: the entries of the list form, the first one last
RECURSIVE listRanges(_, _)
listRanges(def, acc) ==
    IF Len(def) = 0 \/ acc.err # "" THEN acc
    ELSE listRanges(Tail(def), listRange(Head(def), acc.rs))

\* flowFor, line 171: sort.Sort(ranges)
sortedRanges(acc) == [rs |-> sortRanges(acc.rs), err |-> acc.err]

\* flowFor, lines 143-224: the iterations of the definition val
forRanges(val, env) ==
    IF IsMap(val)
    THEN sortedRanges(mapRanges(RangeKeys(val.v.m, env.range), val.v.m,
                                [rs |-> << >>, err |-> ""]))
    ELSE IF IsList(val) THEN listRanges(val.v.l, [rs |-> << >>, err |-> ""])
    ELSE [rs |-> << >>, err |-> "value field must be map"]

\* flowFor, lines 240-244: the variables of the current tuple, later ranges
\* overwriting earlier ones of the same name
RECURSIVE forInput(_, _, _, _)
forInput(ranges, cur, i, inp) ==
    IF i > Len(ranges) THEN inp
    ELSE forInput(ranges, cur, i + 1,
                  With(With(inp, ranges[i].name, ItValue(ranges[i].it, cur[i])),
                       ranges[i].index, NewNode(ItIndex(ranges[i].it, cur[i]), "for")))

\* SubstitutionExpr.Evaluate: the expression of the template under the scope
evalTemplate(t, scope) ==
    IF IsExpr(t.v.body) THEN Evaluate(t.v.body.v.e, scope)
    ELSE EvalResult(t.v.body.v, DefaultInfo, TRUE)

\* the option key of the control evaluated where it is a template
forEvaluate(opts, key, scope) ==
    IF key \in DOMAIN opts /\ IsTemplate(opts[key]) THEN evalTemplate(opts[key], scope)
    ELSE EvalResult(Nil, DefaultInfo, FALSE)

\* flowFor, lines 246-257: the map key of the tuple, k its evaluation
forKey(hasKey, k, acc) ==
    IF ~hasKey THEN acc
    ELSE IF ~k.ok
    THEN [acc EXCEPT !.done = FALSE, !.key = "",
                     !.nested = Append(Append(@, k.info.Issue), "map key must be string")]
    ELSE IF k.value.k # "str"
    THEN [acc EXCEPT !.done = FALSE, !.key = "",
                     !.nested = Append(@, "map key must be string")]
    ELSE [acc EXCEPT !.key = k.value.s]

\* flowFor, lines 267-271 and 275-279: the element of the tuple is added
forAdd(hasKey, n, acc) ==
    IF hasKey THEN [acc EXCEPT !.map = With(@, acc.key, n)]
    ELSE [acc EXCEPT !.list = Append(@, n)]

\* flowFor, lines 258-280: the body of the tuple, v its evaluation
forBody(node, hasKey, opts, v, acc) ==
    IF ~IsTemplate(opts["do"]) THEN forAdd(hasKey, opts["do"], acc)
    ELSE IF ~v.ok
    THEN [acc EXCEPT !.done = FALSE, !.nested = Append(@, v.info.Issue)]
    ELSE IF v.value.k = "expr" THEN [acc EXCEPT !.done = FALSE]
    ELSE forAdd(hasKey, NewNode(v.value, node.s), acc)

\* flowFor, lines 240-280: the map key and the body under the scope of the tuple
forTuple(node, hasKey, opts, scope, acc) ==
    forBody(node, hasKey, opts, forEvaluate(opts, "do", scope),
            forKey(hasKey, forEvaluate(opts, "mapkey", scope), acc))

\* fault: only the first range is stepped through
forAdvance_firstOnly(ranges, cur, i) ==
    IF i = Len(ranges) \/ i > 0 THEN [stop |-> TRUE, cur |-> cur]
    ELSE IF cur[i + 1] + 1 < ItLen(ranges[i + 1].it)
    THEN [stop |-> FALSE, cur |-> [cur EXCEPT ![i + 1] = @ + 1]]
    ELSE [stop |-> TRUE, cur |-> cur]

\* flowFor, lines 282-291: the step to the next tuple, range 0 running fastest
RECURSIVE forAdvance(_, _, _)
forAdvance(ranges, cur, i) ==
    IF i = Len(ranges) THEN [stop |-> TRUE, cur |-> cur]
    ELSE IF cur[i + 1] + 1 < ItLen(ranges[i + 1].it)
    THEN [stop |-> FALSE, cur |-> [cur EXCEPT ![i + 1] = @ + 1]]
    ELSE forAdvance(ranges, [cur EXCEPT ![i + 1] = 0], i + 1)

\* flowFor, lines 238-292: the loop over the tuples; reading the value of a
\* range without iterator is a nil dereference
RECURSIVE forLoop(_, _, _, _, _, _, _)
RECURSIVE forNext(_, _, _, _, _, _, _)
forLoop(node, ranges, cur, hasKey, opts, env, acc) ==
    IF \E i \in 1..Len(ranges) : ranges[i].it.nil THEN [acc EXCEPT !.panic = TRUE]
    ELSE forNext(node, ranges, hasKey, opts, env, forAdvance(ranges, cur, 0),
                 forTuple(node, hasKey, opts,
                          WithLocalScope(env, forInput(ranges, cur, 1, << >>)), acc))

forNext(node, ranges, hasKey, opts, env, adv, acc) ==
    IF adv.stop THEN acc
    ELSE Then(acc, forLoop(node, ranges, adv.cur, hasKey, opts, env, acc))

\* dynaml.ControlIssue: the control node with the issue, not done
ControlIssue(node, msg) ==
    [n |-> IssueNode(node, TRUE, TRUE, msg), ok |-> FALSE, panic |-> FALSE]

\* flowFor, lines 293-303: the result of the loop
forResult(node, hasKey, acc) ==
    IF acc.panic THEN [n |-> node, ok |-> FALSE, panic |-> TRUE]
    ELSE IF ~acc.done /\ Len(acc.nested) > 0
    THEN [n |-> IssueNode(node, TRUE, FALSE, "error evaluationg for body"),
          ok |-> FALSE, panic |-> FALSE]
    ELSE IF ~acc.done THEN [n |-> node, ok |-> FALSE, panic |-> FALSE]
    ELSE IF ~hasKey THEN [n |-> NewNode(ListV(acc.list), node.s), ok |-> TRUE, panic |-> FALSE]
    ELSE [n |-> NewNode(MapV(acc.map), node.s), ok |-> TRUE, panic |-> FALSE]

\* flowFor, lines 143-304: the ranges rg are iterated
forIterate(node, opts, env, rg) ==
    IF rg.err # "" THEN ControlIssue(node, rg.err)
    ELSE forResult(node, "mapkey" \in DOMAIN opts,
                   forLoop(node, rg.rs, [i \in 1..Len(rg.rs) |-> 0],
                           "mapkey" \in DOMAIN opts, opts, env,
                           [list |-> << >>, map |-> << >>, key |-> "", done |-> TRUE,
                            nested |-> << >>, panic |-> FALSE]))

\* fault: the shape of the control is not checked
flowFor_unchecked(val, node, fields, opts, env) ==
    IF ~IsResolvedNode(val) \/ "do" \notin DOMAIN opts
    THEN [n |-> node, ok |-> FALSE, panic |-> FALSE]
    ELSE IF ~IsResolvedNode(opts["do"]) THEN [n |-> node, ok |-> FALSE, panic |-> FALSE]
    ELSE IF "mapkey" \in DOMAIN opts /\ ~IsResolvedNode(opts["mapkey"])
    THEN [n |-> node, ok |-> FALSE, panic |-> FALSE]
    ELSE IF "mapkey" \in DOMAIN opts /\ ~IsTemplate(opts["mapkey"])
    THEN ControlIssue(node, "mapkey must be an expression")
    ELSE forIterate(node, opts, env, forRanges(val, env))

\* flowFor, lines 111-142
flowFor(val, node, fields, opts, env) ==
    IF fields # {} THEN ControlIssue(node, "no regular fields allowed in for control")
    ELSE IF ~IsResolvedNode(val) THEN [n |-> node, ok |-> FALSE, panic |-> FALSE]
    ELSE IF "do" \notin DOMAIN opts
    THEN ControlIssue(node, "do fields required in for control")
    ELSE IF ~IsResolvedNode(opts["do"]) THEN [n |-> node, ok |-> FALSE, panic |-> FALSE]
    ELSE IF "mapkey" \in DOMAIN opts /\ ~IsResolvedNode(opts["mapkey"])
    THEN [n |-> node, ok |-> FALSE, panic |-> FALSE]
    ELSE IF "mapkey" \in DOMAIN opts /\ ~IsTemplate(opts["mapkey"])
    THEN ControlIssue(node, "mapkey must be an expression")
    ELSE forIterate(node, opts, env, forRanges(val, env))

\* the node left where the run has stopped with a panic
PanicNode == NewNode([k |-> "panic"], "")

\* the options the control `for` is registered with
ForOptions == {"do", "mapkey"}

\* dynaml.RequireTemplate: the options of a control are flowed as templates
RequireTemplate(key, env) ==
    /\ key \in ForOptions
    /\ Len(env.scope) > 0
    /\ "for" \in DOMAIN env.scope[Len(env.scope)]

\* the handler of the control node called with its value, fields and options
controlResult(node, r) == IF r.panic THEN PanicNode ELSE r.n

\* flowControl: a control node is handed to its handler, any other node is
\* passed on as it is
flowControl(node, undefined, env) ==
    IF ~IsControl(node) THEN node
    ELSE Then(node,
              controlResult(node,
                            flowFor(node.v.m["for"], node,
                                    DOMAIN node.v.m \ ({"for"} \cup ForOptions),
                                    [k \in DOMAIN node.v.m \cap ForOptions |-> node.v.m[k]],
                                    env)))

NoNode == [none |-> TRUE, n |-> NewNode(Nil, "")]
Some(n) == [none |-> FALSE, n |-> n]

\* fault: an undefined entry is kept like any other
addEntry_keepUndefined(acc, key, f, flags) ==
    [newMap |-> With(acc.newMap, key,
                     IF PropagateImplied(flags) THEN AddFlags(f.n, {"IMPLIED"}) ELSE f.n),
     undefined |-> acc.undefined, t |-> f.t]

\* flowMap, lines 428-435: an entry that is not undefined is kept
addEntry(acc, key, f, flags) ==
    IF ~Undefined(f.n)
    THEN [newMap |-> With(acc.newMap, key,
                          IF PropagateImplied(flags) THEN AddFlags(f.n, {"IMPLIED"}) ELSE f.n),
          undefined |-> acc.undefined, t |-> f.t]
    ELSE [newMap |-> acc.newMap, undefined |-> acc.undefined \cup {key}, t |-> f.t]

\* flowMap, lines 408-437: the entries of rootMap in sorted key order
RECURSIVE flowMapEntries(_, _, _, _, _, _, _, _, _)
flowMapEntries(keys, rootMap, mergekey, mergeval, processed, env, shouldOverride, flags, acc) ==
    Then(acc,
         IF Len(keys) = 0 THEN acc
         ELSE IF Head(keys) = mergekey /\ mergeval.none
         THEN flowMapEntries(Tail(keys), rootMap, mergekey, mergeval, processed, env,
                             shouldOverride, flags, acc)
         ELSE flowMapEntries(Tail(keys), rootMap, mergekey, mergeval, processed, env,
                             shouldOverride, flags,
                             addEntry(acc, Head(keys),
                                      IF Head(keys) = mergekey THEN R(mergeval.n, acc.t)
                                      ELSE IF processed
                                      THEN flow(rootMap[Head(keys)], WithPath(env, Head(keys)),
                                                shouldOverride,
                                                RequireTemplate(Head(keys), env), acc.t)
                                      ELSE R(rootMap[Head(keys)], acc.t),
                                      flags)))

\* fault: every key of the stub map missing from the map is injected
injectMapEntries_all(newMap, stub) ==
    [k \in DOMAIN newMap \cup DOMAIN stub.v.m |->
        IF k \in DOMAIN newMap THEN newMap[k]
        ELSE AddFlags(substituteNode(stub.v.m[k]), {"INJECT", "INJECTED"})]

\* flowMap, lines 439-454: the INJECT entries of the matching stub map
injectMapEntries(newMap, stub) ==
    LET inj == {k \in DOMAIN stub.v.m : "INJECT" \in Flags(stub.v.m[k]) /\ k \notin DOMAIN newMap}
    IN  [k \in DOMAIN newMap \cup inj |->
            IF k \in DOMAIN newMap THEN newMap[k]
            ELSE AddFlags(substituteNode(stub.v.m[k]), {"INJECT", "INJECTED"})]

\* flowMap, lines 288-304: the state of a map without merge key
mergeNone(root0, template0, flags, reg) ==
    [tag |-> Tag(root0), flags |-> flags, template |-> template0,
     processed |-> TRUE, merged |-> FALSE, mergeval |-> NoNode,
     redirect |-> RedirectPath(root0), replace |-> ReplaceFlag(root0),
     newMap |-> EmptyMap, addEntries |-> TRUE, err |-> "", reg |-> reg]

\* flowMap, lines 328-362: the merge key still holds an Expression
mergeExpression(root0, template0, flags, skip, bf, at) ==
    [tag |-> IF at.ok /\ at.m.tag # "" THEN at.m.tag ELSE Tag(root0),
     flags |-> flags \cup (IF at.ok THEN at.m.flags ELSE {}),
     template |-> template0 \/ (at.ok /\ at.m.template),
     processed |-> (at.ok /\ at.m.template) \/ skip,
     merged |-> FALSE,
     mergeval |-> IF at.ok /\ at.m.template
                  THEN (IF TemplateExpression(at.m, root0).none THEN NoNode
                        ELSE Some(TemplateExpression(at.m, root0).n))
                  ELSE IF skip THEN NoNode ELSE Some(bf.n),
     redirect |-> RedirectPath(root0), replace |-> ReplaceFlag(root0),
     newMap |-> EmptyMap, addEntries |-> TRUE, err |-> "", reg |-> bf.t]

\* fault: the marks of the resolved merge value are not handed on to the map
mergeValue_unmarked(root0, template0, flags, bf, drop) ==
    [tag |-> Tag(root0), flags |-> flags, template |-> template0,
     processed |-> TRUE,
     merged |-> FALSE,
     mergeval |-> IF drop THEN NoNode ELSE Some(bf.n),
     redirect |-> RedirectPath(root0),
     replace |-> ReplaceFlag(root0),
     newMap |-> IF IsMap(bf.n) THEN bf.n.v.m ELSE EmptyMap,
     addEntries |-> TRUE,
     err |-> IF ~IsMap(bf.n) /\ ~IsNil(bf.n) /\ ~EmbeddedDynaml(bf.n)
             THEN "require map value for '<<' insert" ELSE "",
     reg |-> bf.t]

\* flowMap, lines 363-397: the merge key has been resolved to a value
mergeValue(root0, template0, flags, bf, drop) ==
    [tag |-> Tag(root0), flags |-> flags, template |-> template0,
     processed |-> TRUE,
     merged |-> Merged(bf.n),
     mergeval |-> IF drop THEN NoNode ELSE Some(bf.n),
     redirect |-> IF RedirectPath(bf.n) # NoPath THEN RedirectPath(bf.n)
                  ELSE RedirectPath(root0),
     replace |-> ReplaceFlag(bf.n),
     newMap |-> IF IsMap(bf.n) THEN bf.n.v.m ELSE EmptyMap,
     addEntries |-> ~(drop /\ ReplaceFlag(bf.n)),
     err |-> IF ~IsMap(bf.n) /\ ~IsNil(bf.n) /\ ~EmbeddedDynaml(bf.n)
             THEN "require map value for '<<' insert" ELSE "",
     reg |-> bf.t]

\* flowMap, lines 318-401: what the flowed merge key bf contributes to the map
mergeState(root0, template0, flags, initial, bf) ==
    IF IsExpr(bf.n)
    THEN mergeExpression(root0, template0, flags, simpleMergeCompatibilityCheck(initial, bf.n),
                         bf, asTemplate(bf.n.v.e, template0))
    ELSE mergeValue(root0, template0, flags, bf,
                    IsMap(bf.n) \/ IsNil(bf.n) \/ ~EmbeddedDynaml(bf.n))

\* fault: the failure the input map carries is not handed on to the result
mapResult_forgetful(root0, rootEnv, env, inh, m, acc) ==
    LET newMap == IF ~m.merged /\ inh.found /\ "INJECTED" \notin m.flags /\ IsMap(inh.stub)
                  THEN injectMapEntries(acc.newMap, inh.stub)
                  ELSE acc.newMap
        result == IF m.template
                  THEN NewTemplateValue(env.path, NewNode(MapV(newMap), root0.s), root0, rootEnv)
                  ELSE MapV(newMap)
        clean == [root0 EXCEPT !.a.failed = FALSE, !.a.error = FALSE, !.a.issue = ""]
        node0 == IF m.replace THEN ReplaceNode(result, clean, m.redirect)
                 ELSE RedirectNode(result, clean, m.redirect)
        node == IF m.err # "" THEN IssueNode(node0, TRUE, TRUE, m.err)
                ELSE flowControl(node0, acc.undefined, env)
    IN  Then(acc,
             R(updateNode(node, IF m.merged THEN m.flags \cup {"INJECTED"} ELSE m.flags,
                          m.tag),
               acc.t))

\* fault: the template captures the binding scoped to the entries of the map
mapResult_scoped(root0, rootEnv, env, inh, m, acc) ==
    LET newMap == IF ~m.merged /\ inh.found /\ "INJECTED" \notin m.flags /\ IsMap(inh.stub)
                  THEN injectMapEntries(acc.newMap, inh.stub)
                  ELSE acc.newMap
        result == IF m.template
                  THEN NewTemplateValue(env.path, NewNode(MapV(newMap), root0.s), root0, env)
                  ELSE MapV(newMap)
        node0 == IF m.replace THEN ReplaceNode(result, root0, m.redirect)
                 ELSE RedirectNode(result, root0, m.redirect)
        node == IF m.err # "" THEN IssueNode(node0, TRUE, TRUE, m.err)
                ELSE IF Failed(root0) THEN IssueNode(node0, TRUE, TRUE, Issue(root0))
                ELSE flowControl(node0, acc.undefined, env)
    IN  Then(acc,
             R(updateNode(node, IF m.merged THEN m.flags \cup {"INJECTED"} ELSE m.flags,
                          m.tag),
               acc.t))

\* flowMap, lines 439-478: injection, the result node and its annotations
mapResult(root0, rootEnv, env, inh, m, acc) ==
    LET newMap == IF ~m.merged /\ inh.found /\ "INJECTED" \notin m.flags /\ IsMap(inh.stub)
                  THEN injectMapEntries(acc.newMap, inh.stub)
                  ELSE acc.newMap
        result == IF m.template
                  THEN NewTemplateValue(env.path, NewNode(MapV(newMap), root0.s), root0, rootEnv)
                  ELSE MapV(newMap)
        node0 == IF m.replace THEN ReplaceNode(result, root0, m.redirect)
                 ELSE RedirectNode(result, root0, m.redirect)
        node == IF m.err # "" THEN IssueNode(node0, TRUE, TRUE, m.err)
                ELSE IF Failed(root0) THEN IssueNode(node0, TRUE, TRUE, Issue(root0))
                ELSE flowControl(node0, acc.undefined, env)
    IN  Then(acc,
             R(updateNode(node, IF m.merged THEN m.flags \cup {"INJECTED"} ELSE m.flags,
                          m.tag),
               acc.t))

\* flowMap, lines 403-437: the entries are flowed unless a replace merge dropped them
mapEntries(root0, rootEnv, env, shouldOverride, mergekey, inh, m) ==
    mapResult(root0, rootEnv, env, inh, m,
              IF m.addEntries
              THEN flowMapEntries(GetSortedKeys(root0.v.m), root0.v.m, mergekey, m.mergeval,
                                  m.processed /\ ~m.template, env, shouldOverride, m.flags,
                                  [newMap |-> m.newMap, undefined |-> {}, t |-> m.reg])
              ELSE [newMap |-> m.newMap, undefined |-> {}, t |-> m.reg])

\* flowMap, lines 318-401: the map with the flowed value bf of its merge key
mapMerged(root0, rootEnv, env0, shouldOverride, template0, mergekey, inh, bf) ==
    IF Undefined(bf.n) THEN R(UndefinedNode(root0), bf.t)
    ELSE mapEntries(root0, rootEnv,
                    IF ~IsExpr(bf.n) /\ RedirectPath(bf.n) # NoPath
                    THEN RedirectOverwrite(env0, RedirectPath(bf.n)) ELSE env0,
                    shouldOverride, mergekey, inh,
                    mergeState(root0, template0, inh.flags,
                               IsString(root0.v.m[mergekey]), bf))

\* flowMap, lines 307-316: the merge key the map is read with
mergeKeyOf(rootMap) == IF "<<" \in DOMAIN rootMap THEN "<<" ELSE MERGEKEY

\* fault: a map that holds both merge keys is merged by the first of them
flowMap_anyKeys(root0, env0, shouldOverride, template0, reg) ==
    IF mergeKeyOf(root0.v.m) \notin DOMAIN root0.v.m
    THEN mapEntries(root0, env0, WithScope(env0, root0.v.m), shouldOverride,
                    mergeKeyOf(root0.v.m), get_inherited_flags(env0),
                    mergeNone(root0, template0, get_inherited_flags(env0).flags, reg))
    ELSE mapMerged(root0, env0, WithScope(env0, root0.v.m), shouldOverride, template0,
                   mergeKeyOf(root0.v.m), get_inherited_flags(env0),
                   _flow(root0.v.m[mergeKeyOf(root0.v.m)], WithScope(env0, root0.v.m),
                         FALSE, FALSE, reg))

flowMap(root0, env0, shouldOverride, template0, reg) ==
    IF "<<" \in DOMAIN root0.v.m /\ MERGEKEY \in DOMAIN root0.v.m
    THEN R(IssueNode(root0, TRUE, TRUE, "multiple merge keys not allowed"), reg)
    ELSE IF mergeKeyOf(root0.v.m) \notin DOMAIN root0.v.m
    THEN mapEntries(root0, env0, WithScope(env0, root0.v.m), shouldOverride,
                    mergeKeyOf(root0.v.m), get_inherited_flags(env0),
                    mergeNone(root0, template0, get_inherited_flags(env0).flags, reg))
    ELSE mapMerged(root0, env0, WithScope(env0, root0.v.m), shouldOverride, template0,
                   mergeKeyOf(root0.v.m), get_inherited_flags(env0),
                   _flow(root0.v.m[mergeKeyOf(root0.v.m)], WithScope(env0, root0.v.m),
                         FALSE, FALSE, reg))

\* yaml.UnresolvedListEntryMerge: a map whose only key is a merge key
UnresolvedListEntryMerge(val) ==
    IF IsMap(val) /\ DOMAIN val.v.m = {"<<"}
    THEN [ok |-> TRUE, qual |-> "<<", inlineNode |-> val.v.m["<<"]]
    ELSE IF IsMap(val) /\ DOMAIN val.v.m = {MERGEKEY}
    THEN [ok |-> TRUE, qual |-> MERGEKEY, inlineNode |-> val.v.m[MERGEKEY]]
    ELSE [ok |-> FALSE, qual |-> "", inlineNode |-> val]

\* ProcessKeyTag, lines 715-723: the key name left by the last `key:` key visited
RECURSIVE lastKeyTag(_, _)
lastKeyTag(keys, keyName) ==
    IF Len(keys) = 0 THEN keyName
    ELSE lastKeyTag(Tail(keys),
                    IF HasKeyPrefix(Head(keys)) THEN KeySuffix(Head(keys)) ELSE keyName)

\* fault: only a `key:` key that is visited first is renamed
renameKeys_headOnly(keys, m, newMap) ==
    IF Len(keys) = 0 THEN newMap
    ELSE [k \in {IF k0 = Head(keys) /\ HasKeyPrefix(k0) THEN KeySuffix(k0) ELSE k0 :
                    k0 \in DOMAIN m} |->
             IF k \in DOMAIN m THEN m[k] ELSE m[Head(keys)]]

\* ProcessKeyTag, lines 725-734: the entries copied under their renamed keys
RECURSIVE renameKeys(_, _, _)
renameKeys(keys, m, newMap) ==
    IF Len(keys) = 0 THEN newMap
    ELSE renameKeys(Tail(keys), m,
                    With(newMap,
                         IF HasKeyPrefix(Head(keys)) THEN KeySuffix(Head(keys)) ELSE Head(keys),
                         m[Head(keys)]))

ProcessKeyTag(val, ord) ==
    IF IsMap(val) /\ \E k \in DOMAIN val.v.m : HasKeyPrefix(k)
    THEN [n |-> SubstituteNode(MapV(renameKeys(RangeKeys(val.v.m, ord), val.v.m, EmptyMap)), val),
          keyName |-> lastKeyTag(RangeKeys(val.v.m, ord), "")]
    ELSE [n |-> val, keyName |-> ""]

\* newEntries, lines 749-755: the entry is already held by the list `old`
isOldEntry(val, old, keyName) ==
    /\ FindString(val, keyName).ok
    /\ Find(old, <<FindString(val, keyName).name>>).found

\* fault: the entries the list holds already are not skipped
newEntries_all(a, b, keyName0) == a

newEntries(a, b, keyName0) ==
    SelectSeq(a, LAMBDA val :
                    ~isOldEntry(val,
                                KeyNameNode(NewNode(ListV(b), "some map"), ListKey(keyName0)),
                                ListKey(keyName0)))

\* processMerges, lines 674-678: the entry is added with its key tag processed
plainEntry(st, pk) ==
    [st EXCEPT !.spliced = Append(@, pk.n),
               !.keyName = IF pk.keyName # "" THEN pk.keyName ELSE @]

\* processMerges, lines 625-645: the inline node is still an Expression
inlineExpression(qual, st, orig, ord, result, at) ==
    IF at.ok /\ at.m.template /\ TemplateExpression(at.m, orig).none
    THEN [st EXCEPT !.flags = @ \cup at.m.flags,
                    !.tag = IF at.m.tag # "" THEN at.m.tag ELSE @,
                    !.template = TRUE, !.process = FALSE]
    ELSE plainEntry([st EXCEPT !.flags = IF at.ok THEN @ \cup at.m.flags ELSE @,
                               !.tag = IF at.ok /\ at.m.tag # "" THEN at.m.tag ELSE @,
                               !.template = @ \/ (at.ok /\ at.m.template),
                               !.process = FALSE],
                    ProcessKeyTag(SubstituteNode(
                                      MapV([q \in {qual} |->
                                              IF at.ok /\ at.m.template
                                              THEN TemplateExpression(at.m, orig).n
                                              ELSE result]), orig), ord))

\* processMerges, lines 647-662: the inline node is a list, its new entries are spliced in
inlineList(st, result, inlineNew) ==
    IF ReplaceFlag(result)
    THEN [st EXCEPT !.merged = TRUE, !.replaced = TRUE,
                    !.redirectPath = RedirectPath(result),
                    !.spliced = inlineNew, !.process = FALSE, !.stop = TRUE]
    ELSE [st EXCEPT !.merged = TRUE, !.replaced = FALSE,
                    !.redirectPath = RedirectPath(result),
                    !.spliced = @ \o inlineNew]

\* processMerges, lines 620-671: the flowed inline node of a merge entry
inlineResult(val, u, st, orig, rootList, env, result) ==
    IF IsExpr(result)
    THEN IF simpleMergeCompatibilityCheck(IsString(u.inlineNode), u.inlineNode) THEN st
         ELSE inlineExpression(u.qual, st, orig, env.range, result,
                               asTemplate(result.v.e, st.template))
    ELSE IF IsList(result)
    THEN inlineList(st, result, newEntries(result.v.l, rootList, st.keyName))
    ELSE IF IsNil(result) \/ ~EmbeddedDynaml(result)
    THEN [st EXCEPT !.redirectPath = RedirectPath(result), !.merged = @ \/ Merged(result)]
    ELSE plainEntry(st, ProcessKeyTag(val, env.range))

\* processMerges, lines 612-619: the inline node of a merge entry is flowed
inlineEntry(val, u, st, orig, rootList, env, rf) ==
    inlineResult(val, u,
                 [st EXCEPT !.t = rf.t,
                            !.keyName = IF KeyName(rf.n) # "" THEN KeyName(rf.n) ELSE @],
                 orig, rootList, env, rf.n)

\* processMerges, lines 606-679: one entry of the list
mergeEntry(val, st, orig, rootList, env) ==
    IF ~UnresolvedListEntryMerge(val).ok
    THEN plainEntry(st, ProcessKeyTag(val, env.range))
    ELSE inlineEntry(val, UnresolvedListEntryMerge(val), st, orig, rootList, env,
                     _flow(UnresolvedListEntryMerge(val).inlineNode, env, FALSE, FALSE, st.t))

RECURSIVE mergeEntries(_, _, _, _, _)
mergeEntries(vals, st, orig, rootList, env) ==
    Then(st,
         IF Len(vals) = 0 \/ st.stop THEN st
         ELSE mergeEntries(Tail(vals), mergeEntry(Head(vals), st, orig, rootList, env),
                           orig, rootList, env))

\* processMerges, lines 688-700: a control entry is flowed and flattened
controlEntry(st, cf) ==
    IF IsList(cf.n) THEN [st EXCEPT !.processed = @ \o cf.n.v.l, !.t = cf.t]
    ELSE [st EXCEPT !.processed = Append(@, cf.n), !.t = cf.t, !.process = FALSE]

\* processMerges, lines 686-702: the spliced entries, controls expanded
RECURSIVE processControls(_, _, _)
processControls(vals, st, env) ==
    Then(st,
         IF Len(vals) = 0 THEN st
         ELSE IF ~IsControl(Head(vals))
         THEN processControls(Tail(vals), [st EXCEPT !.processed = Append(@, Head(vals))], env)
         ELSE processControls(Tail(vals),
                              controlEntry(st, _flow(Head(vals), env, FALSE, FALSE, st.t)),
                              env))

\* processMerges, lines 681-706: the values returned
mergesResult(orig, env, inh, st, pc0) ==
    [result |-> IF st.template
                THEN NewTemplateValue(env.path, NewNode(ListV(st.spliced), orig.s), orig, env)
                ELSE ListV(pc0.processed),
     process |-> pc0.process, replaced |-> st.replaced,
     redirectPath |-> st.redirectPath, keyName |-> st.keyName, merged |-> st.merged,
     flags |-> st.flags, tag |-> st.tag, found |-> inh.found, stub |-> inh.stub,
     t |-> pc0.t]

\* processMerges, lines 681-703: the spliced list as a template or with its controls
mergesSpliced(orig, env, inh, st) ==
    mergesResult(orig, env, inh, st,
                 IF st.template THEN [processed |-> << >>, process |-> st.process, t |-> st.t]
                 ELSE processControls(st.spliced,
                                      [processed |-> << >>, process |-> st.process, t |-> st.t],
                                      env))

processMerges(orig, rootList, env, template, reg) ==
    mergesSpliced(orig, env, get_inherited_flags(env),
                  mergeEntries(rootList,
                               [spliced |-> << >>, process |-> TRUE, merged |-> FALSE,
                                keyName |-> KeyName(orig), replaced |-> ReplaceFlag(orig),
                                redirectPath |-> RedirectPath(orig),
                                flags |-> get_inherited_flags(env).flags, tag |-> Tag(orig),
                                template |-> template, stop |-> FALSE, t |-> reg],
                               orig, rootList, env))

\* stepName with an identity that is still an Expression taken as resolved
stepFlowed_resolved(step, keyName, vf) ==
    IF IsString(vf.n)
    THEN [step |-> keyName \o ":" \o vf.n.v.s, resolved |-> TRUE, t |-> vf.t]
    ELSE [step |-> step, resolved |-> TRUE, t |-> vf.t]

\* stepName, lines 578-587: the step of an identity field that was an Expression
stepFlowed(step, keyName, vf) ==
    IF IsExpr(vf.n) THEN [step |-> step, resolved |-> FALSE, t |-> vf.t]
    ELSE IF IsString(vf.n)
    THEN [step |-> keyName \o ":" \o vf.n.v.s, resolved |-> TRUE, t |-> vf.t]
    ELSE [step |-> step, resolved |-> TRUE, t |-> vf.t]

\* stepName, lines 572-591: the step of an entry whose identity is no plain string
stepRaw(step, keyName, raw, env, reg) ==
    IF raw.found /\ ~IsNil(raw.node)
    THEN IF IsExpr(raw.node)
         THEN stepFlowed(step, keyName,
                         flow(raw.node, WithPath(env, step), FALSE, FALSE, reg))
         ELSE IF IsString(raw.node)
         THEN [step |-> keyName \o ":" \o raw.node.v.s, resolved |-> TRUE, t |-> reg]
         ELSE [step |-> step, resolved |-> TRUE, t |-> reg]
    ELSE [step |-> step, resolved |-> TRUE, t |-> reg]

stepName(index, value, keyName0, env, reg) ==
    IF FindString(value, ListKey(keyName0)).ok
    THEN [step |-> ListKey(keyName0) \o ":" \o FindString(value, ListKey(keyName0)).name,
          resolved |-> TRUE, t |-> reg]
    ELSE stepRaw(IndexStep(index), ListKey(keyName0), FindR(value, ListKey(keyName0)),
                 env, reg)

\* flowList, lines 499-501: an element that is not undefined is kept
addElement(acc, f) ==
    [newList |-> IF ~Undefined(f.n) THEN Append(acc.newList, f.n) ELSE acc.newList,
     t |-> f.t]

\* flowList, lines 494-498: the element is flowed at its step if the step is resolved
flowElement(val, env, sn) ==
    IF sn.resolved THEN flow(val, WithPath(env, sn.step), FALSE, FALSE, sn.t)
    ELSE R(val, sn.t)

\* flowList, lines 493-502: the elements of the spliced list
RECURSIVE flowListElements(_, _, _, _, _)
flowListElements(vals, idx, keyName, env, acc) ==
    Then(acc,
         IF idx >= Len(vals) THEN acc
         ELSE flowListElements(vals, idx + 1, keyName, env,
                               addElement(acc,
                                          flowElement(vals[idx + 1], env,
                                                      stepName(idx, vals[idx + 1], keyName,
                                                               env, acc.t)))))

\* flowList, lines 506-517: the INJECT elements of the matching stub list
injectedElements(stub) == SelectSeq(stub.v.l, LAMBDA v : "INJECT" \in Flags(v))

\* flowList, lines 523-544: the annotations of the resulting list node
listNode(root0, pm, merged, flags) ==
    LET root1 == IF pm.keyName # "" THEN KeyNameNode(root0, pm.keyName) ELSE root0
        root2 == IF pm.replaced THEN ReplaceNode(merged, root1, pm.redirectPath)
                 ELSE IF pm.redirectPath # NoPath
                 THEN RedirectNode(merged, root1, pm.redirectPath)
                 ELSE SubstituteNode(merged, root1)
    IN  IF (flags \cup Flags(root2)) # Flags(root2) THEN AddFlags(root2, flags)
        ELSE IF pm.tag # "" /\ pm.tag # Tag(root2) THEN SetTag(root2, pm.tag)
        ELSE root2

\* fault: the list is not flagged INJECTED, so every pass injects again
listResult_unflagged(root0, pm, fl, inject) ==
    Then(fl,
         R(listNode(root0, pm,
                    ListV(IF inject /\ IsList(pm.stub)
                          THEN injectedElements(pm.stub) \o fl.newList
                          ELSE fl.newList),
                    pm.flags),
           fl.t))

\* flowList, lines 503-520: injection into the flowed elements fl
listResult(root0, pm, fl, inject) ==
    Then(fl,
         R(listNode(root0, pm,
                    ListV(IF inject /\ IsList(pm.stub)
                          THEN injectedElements(pm.stub) \o fl.newList
                          ELSE fl.newList),
                    IF pm.merged \/ inject THEN pm.flags \cup {"INJECTED"} ELSE pm.flags),
           fl.t))

\* flowList, lines 487-521: the elements are flowed if the merges left the list processable
listProcess(root0, env0, pm) ==
    IF pm.process
    THEN listResult(root0, pm,
                    flowListElements(pm.result.l, 0, pm.keyName,
                                     IF pm.redirectPath # NoPath
                                     THEN RedirectOverwrite(env0, pm.redirectPath) ELSE env0,
                                     [newList |-> << >>, t |-> pm.t]),
                    ~pm.merged /\ pm.found /\ "INJECTED" \notin Flags(root0))
    ELSE R(listNode(root0, pm, pm.result, pm.flags), pm.t)

flowList(root0, env0, template, reg) ==
    listProcess(root0, env0, processMerges(root0, root0.v.l, env0, template, reg))

\* _flow, lines 92-100: a control that did not yield a map goes on to the stub override
mapDone(root0, env, shouldOverride, ok, fm) ==
    IF ~ok \/ IsMap(fm.n) THEN fm
    ELSE R(stubOverride(fm.n, env, Merged(root0), KeyName(root0), ReplaceFlag(root0),
                        RedirectPath(root0), Flags(root0), shouldOverride), fm.t)

\* _flow, lines 223-231 and 245-266: the evaluated expression and its stub override
exprOverride(root0, env, shouldOverride, reg, x) ==
    IF x.done THEN R(x.n, reg)
    ELSE R(stubOverride(x.n, env, Merged(root0), x.keyName, x.replace, x.redirect,
                        x.flags, shouldOverride), reg)

\* fault: the parsed string is evaluated and overridden in the call that parsed it
stringDone_evaluate(root0, env, shouldOverride, reg, fs) ==
    IF IsExpr(fs.n)
    THEN exprOverride(fs.n, env, shouldOverride, reg,
                      flowExpression(fs.n, env, shouldOverride, FALSE))
    ELSE R(stubOverride(root0, env, Merged(root0), KeyName(root0), ReplaceFlag(root0),
                        RedirectPath(root0), Flags(root0), shouldOverride), reg)

\* _flow, lines 233-242: a string that parses becomes an Expression and is returned
stringDone(root0, env, shouldOverride, reg, fs) ==
    IF IsExpr(fs.n) THEN R(fs.n, reg)
    ELSE R(stubOverride(root0, env, Merged(root0), KeyName(root0), ReplaceFlag(root0),
                        RedirectPath(root0), Flags(root0), shouldOverride), reg)

\* fault: a merged node is flowed like any other
flowNode_noSkip(root0, env, shouldOverride, enforceTemplate, reg) ==
    IF ~ReplaceFlag(root0) /\ IsMap(root0)
    THEN mapDone(root0, env, shouldOverride, IsControl(root0),
                 flowMap(root0, env, ~IsControl(root0), enforceTemplate, reg))
    ELSE IF ~ReplaceFlag(root0) /\ IsList(root0) THEN flowList(root0, env, enforceTemplate, reg)
    ELSE IF ~ReplaceFlag(root0) /\ IsExpr(root0)
    THEN exprOverride(root0, env, shouldOverride, reg,
                      flowExpression(root0, env, shouldOverride, enforceTemplate))
    ELSE IF ~ReplaceFlag(root0) /\ IsString(root0)
    THEN stringDone(root0, env, shouldOverride, reg, FlowString(root0, env))
    ELSE R(stubOverride(root0, env, Merged(root0), KeyName(root0), ReplaceFlag(root0),
                        RedirectPath(root0), Flags(root0), shouldOverride), reg)

\* _flow, lines 81-266 under the environment redirected by the node
flowNode(root0, env, shouldOverride, enforceTemplate, reg) ==
    IF ~ReplaceFlag(root0) /\ ~IsExpr(root0) /\ Merged(root0) THEN R(root0, reg)
    ELSE IF ~ReplaceFlag(root0) /\ IsMap(root0)
    THEN mapDone(root0, env, shouldOverride, IsControl(root0),
                 flowMap(root0, env, ~IsControl(root0), enforceTemplate, reg))
    ELSE IF ~ReplaceFlag(root0) /\ IsList(root0)
    THEN flowList(root0, env, enforceTemplate, reg)
    ELSE IF ~ReplaceFlag(root0) /\ IsExpr(root0)
    THEN exprOverride(root0, env, shouldOverride, reg,
                      flowExpression(root0, env, shouldOverride, enforceTemplate))
    ELSE IF ~ReplaceFlag(root0) /\ IsString(root0)
    THEN stringDone(root0, env, shouldOverride, reg, FlowString(root0, env))
    ELSE R(stubOverride(root0, env, Merged(root0), KeyName(root0), ReplaceFlag(root0),
                        RedirectPath(root0), Flags(root0), shouldOverride), reg)

_flow(root0, env0, shouldOverride, enforceTemplate, reg) ==
    flowNode(root0,
             IF RedirectPath(root0) # NoPath THEN RedirectOverwrite(env0, RedirectPath(root0))
             ELSE env0,
             shouldOverride, enforceTemplate, reg)

\* fault: the tag is published without a look at the registry's answer
publishTag_ignoreConflict(root0, env, f, scope, name) ==
    R(f.n, RegistrySetTag(f.t, name, env.path, scope))

\* flow, lines 37-57: a resolved node publishes its tag, once per tag and scope
publishTag(root0, env, f, scope, name) ==
    IF TagConflict(f.t, name, env.path, scope)
    THEN R(IssueNode(IF IsNil(f.n) THEN ReplaceValue(root0.v, f.n) ELSE f.n,
                     TRUE, TRUE, "tag already defined"), f.t)
    ELSE R(f.n, RegistrySetTag(f.t, name, env.path, scope))

\* flow, lines 36-57: the result f of _flow and the tag it carries
flowTag(root0, env, f) ==
    Then(f,
         IF Tag(f.n) # "" /\ IsResolvedNode(f.n)
         THEN publishTag(root0, env, f,
                         IF Tag(f.n) \in GlobalTags THEN TAG_SCOPE_GLOBAL
                         ELSE TAG_SCOPE_STREAM,
                         IF Tag(f.n) \in GlobalTags THEN StripStar(Tag(f.n)) ELSE Tag(f.n))
         ELSE f)

flow(root0, env, shouldOverride, enforceTemplate, reg) ==
    flowTag(root0, env, _flow(root0, env, shouldOverride, enforceTemplate, reg))


(***************************************************************************)
(* The documents of the model: a source tree and a stub sequence           *)
(***************************************************************************)
S(v) == NewNode(v, "src")
T(v) == NewNode(v, "stub")
TF(v, flags) == AddFlags(T(v), flags)

Entry(k, n) == [x \in {k} |-> n]

Join(f, g) == [x \in DOMAIN f \cup DOMAIN g |-> IF x \in DOMAIN f THEN f[x] ELSE g[x]]

SMap(f) == S(MapV(f))
TMap(f) == T(MapV(f))

SrcA == {Entry("a", S(Str(x))) :
            x \in {"x", "(( val ))", "(( ~~ ))", "(( fail ))", "(( prefer val ))",
                   "(( merge ))", "(( merge replace ))", "(( merge b ))",
                   "(( merge items ))", "(( &tag:*g (val) ))",
                   "(( &dynamic (val) ))", "(( &dynamic &template (val) ))"}}

SrcB == {EmptyMap} \cup
        {Entry("b", S(Str(x))) :
            x \in {"y", "(( &tag:*g (val) ))", "(( &tag:t (val) ))", "(( ! ))"}}

SrcM == {EmptyMap} \cup
        {Entry("m", SMap(Entry("c", S(Str("y"))))),
         Entry("m", SMap(Join(Entry("c", S(Str("(( ~~ ))"))), Entry("b", S(Str("y"))))))} \cup
        {Entry("m", SMap(Join(Entry("<<", S(Str(x))), Entry("c", S(Str("y")))))) :
            x \in {"(( merge ))", "(( merge replace ))", "(( merge required ))",
                   "(( merge m ))", "x"}} \cup
        {Entry("m", SMap(Join(Entry("<<", S(Str(x))), Entry("c", S(Str("(( val ))")))))) :
            x \in {"(( &template ))", "(( &template (merge) ))"}} \cup
        {Entry("m", SMap(Join(Join(Entry("<<", S(Str("(( merge ))"))),
                                   Entry(MERGEKEY, S(Str("(( merge ))")))),
                              Entry("c", S(Str("y"))))))}

Elem(kn, id, v) == SMap(Join(Entry(kn, S(Str(id))), Entry("v", S(Str(v)))))
Inline(x) == SMap(Entry("<<", S(Str(x))))

SrcItems == {EmptyMap} \cup
    {Entry("items", S(ListV(l))) :
        l \in {<<Elem("name", "n1", "1")>>,
               <<Inline("(( merge ))"), Elem("name", "n1", "1")>>,
               <<Elem("name", "n1", "1"), Inline("(( merge ))")>>,
               <<Inline("(( merge replace ))"), Elem("name", "n1", "1")>>,
               <<Elem("name", "n1", "1"), Inline("(( merge replace ))")>>,
               <<Inline("(( merge on id ))"), Elem("id", "n1", "1")>>,
               <<Elem("key:id", "n1", "1")>>,
               <<SMap(Join(Elem("key:id", "n1", "1").v.m, Entry("key:nm", S(Str("n1")))))>>,
               <<S(Str("x")), S(Str("(( ~~ ))"))>>,
               <<S(Str("inj"))>>,
               <<Elem("name", "(( val ))", "1")>>,
               <<Elem("name", "(( fail ))", "(( val ))")>>}}

SrcA2 == {EmptyMap, Entry("a", S(Str("(( val ))")))}

Sources == {SMap(Join(a, b)) : a \in SrcA, b \in SrcB} \cup
           {SMap(Join(Join(a, m), i)) : a \in SrcA2, m \in SrcM, i \in SrcItems}

StubElem(kn, id, v) == TMap(Join(Entry(kn, T(Str(id))), Entry("v", T(Str(v)))))

StubSeqs ==
    {<< >>,
     <<TMap(Join(Entry("a", T(Str("X"))),
                 Entry("items", T(ListV(<<T(Str("Z")), T(Str("Z2"))>>)))))>>,
     <<TMap(Join(Join(Entry("a", T(Str("X"))),
                      Entry("m", TMap(Join(Entry("c", T(Str("Z"))), Entry("b", T(Str("W"))))))),
                 Entry("items", T(ListV(<<StubElem("name", "n1", "9"),
                                          StubElem("name", "n2", "2")>>)))))>>,
     <<TMap(Join(Join(Entry("a", TF(Str("X"), {"DEFAULT"})),
                      Entry("m", TMap(Join(Entry("c", T(Str("Z"))),
                                           Entry("b", TF(Str("I"), {"INJECT"})))))),
                 Entry("items", T(ListV(<<TF(Str("inj"), {"INJECT"}),
                                          StubElem("name", "n1", "9")>>)))))>>,
     <<TMap(Entry("a", T(Str("X1")))),
       TMap(Join(Entry("a", T(Str("X2"))), Entry("b", T(Str("Y")))))>>,
     <<TMap(Join(Entry("b", T(Str("Y"))),
                 Entry("items", T(ListV(<<StubElem("id", "n1", "9"),
                                          StubElem("id", "n2", "2")>>)))))>>}

\* a list of scalars
SList(xs) == S(ListV([i \in 1..Len(xs) |-> S(Str(xs[i]))]))

\* the range definitions of the `for` controls
ForDefs ==
    {SMap(Entry("i", SList(<<"1", "2", "3">>))),
     SMap(EmptyMap),
     SMap(Join(Entry("i", SList(<<"1", "2">>)), Entry("j", SList(<<"a", "b">>)))),
     SMap(Entry("x,i", SList(<<"1", "2">>))),
     SMap(Join(Entry("x,i", SList(<<"1", "2">>)), Entry("j", SList(<<"a", "b">>)))),
     SMap(Entry("a-b", SList(<<"1", "2">>))),
     SMap(Entry("", SList(<<"1">>))),
     SMap(Entry("-", SList(<<"1">>))),
     SMap(Entry("i", SList(<< >>))),
     SMap(Entry("i", SMap(Join(Entry("p", S(Str("1"))), Entry("q", S(Str("2"))))))),
     SMap(Entry("a,b,c", SList(<<"1">>))),
     SMap(Entry("i", S(Str("x"))))}

\* the bodies of the `for` controls
ForBodies ==
    {EmptyMap} \cup
    {Entry("do", S(Str(x))) : x \in {"(( i ))", "(( i * i ))", "(( i j ))", "x", "(( fail ))",
                                      "(( val ))"}}

\* the documents {for: ..., do: ...}, some with a map key or a regular field
ForSources ==
    {SMap(Join(Entry("for", d), b)) : d \in ForDefs, b \in ForBodies} \cup
    {SMap(Join(Join(Entry("for", d), Entry("do", S(Str("(( i * i ))")))),
               Entry("mapkey", S(Str(k))))) : d \in ForDefs, k \in {"(( i ))", "x"}} \cup
    {SMap(Join(Join(Entry("for", d), Entry("do", S(Str("(( i ))")))),
               Entry("z", S(Str("x"))))) : d \in ForDefs}

(***************************************************************************)
(* The fixed-point driver of Flow / NestedFlow                             *)
(***************************************************************************)
\* one pass over the whole tree, the ranges over maps visiting keys in order ord
flowPass(node, ss, reg, ord) == flow(node, NewEnvironment(ss, ord), TRUE, FALSE, reg)

\* the loop of the driver as a function: the tree after at most n passes
RECURSIVE flowFix(_, _, _, _)
flowLoop(node, ss, f, n) == IF f.n = node THEN node ELSE flowFix(f.n, ss, f.t, n - 1)

flowFix(node, ss, reg, n) ==
    IF n = 0 THEN node ELSE flowLoop(node, ss, flowPass(node, ss, reg, KeyOrder), n)

Init ==
    /\ source \in Sources
    /\ root = source
    /\ stubs \in StubSeqs
    /\ tags = {}
    /\ pc = "flow"
    /\ passes = 0

\* the pass ran into a nil dereference and the run ended there
Panicked(n) == \E x \in Nodes(n) : x = PanicNode

\* one iteration of the loop: flow the tree, stop when the pass changed nothing
Pass ==
    /\ pc = "flow"
    /\ passes < MaxPasses
    /\ \E ord \in RangeOrders : \E f \in {flowPass(root, stubs, tags, ord)} :
          IF Panicked(f.n)
          THEN root' = root /\ tags' = tags /\ pc' = "panic"
          ELSE /\ root' = f.n
               /\ tags' = f.t
               /\ pc' = IF f.n = root THEN "stable" ELSE "flow"
    /\ passes' = passes + 1
    /\ UNCHANGED <<source, stubs>>

\* after the loop: unresolved nodes and the issues still present are reported
\* as the error of the run
Report ==
    /\ pc = "stable"
    /\ pc' = IF IsResolvedNode(root) /\ ~HasIssue(root) THEN "done" ELSE "unresolved"
    /\ UNCHANGED <<root, source, stubs, tags, passes>>

Next == Pass \/ Report

Spec == Init /\ [][Next]_vars

\* the runs over the documents that hold a `for` control
ForInit ==
    /\ source \in ForSources
    /\ root = source
    /\ stubs = << >>
    /\ tags = {}
    /\ pc = "flow"
    /\ passes = 0

ForSpec == ForInit /\ [][Next]_vars


(***************************************************************************)
(* Properties                                                              *)
(***************************************************************************)
\* the run is over: the driver has reported its result
Halted == pc \in {"done", "unresolved"}

\* the step by which the engine addresses element i of list node l
ElemStep(l, i) ==
    IF FindString(l.v.l[i], ListKey(KeyName(l))).ok
    THEN ListKey(KeyName(l)) \o ":" \o FindString(l.v.l[i], ListKey(KeyName(l))).name
    ELSE IndexStep(i - 1)

\* the list elements a path can address in source and stub alike: scalars by
\* their index, maps by their name (a name still to be evaluated addresses
\* nothing yet)
Addressable(e) ==
    ~IsMap(e) \/ (FindString(e, "name").ok /\ ~EmbeddedDynaml(e.v.m["name"]))

\* the paths of the leaves of n, the merge keys of a map being no data of it
RECURSIVE LeafPaths(_)
LeafPaths(n) ==
    IF IsMap(n)
    THEN UNION {{<<k>> \o p : p \in LeafPaths(n.v.m[k])} : k \in DOMAIN n.v.m \ {"<<", MERGEKEY}}
    ELSE IF IsList(n)
    THEN UNION {{<<ElemStep(n, i)>> \o p : p \in LeafPaths(n.v.l[i])} :
                   i \in {j \in 1..Len(n.v.l) : Addressable(n.v.l[j])}}
    ELSE {<< >>}

Prefixes(p) == {SubSeq(p, 1, i) : i \in 0..Len(p)}

\* the output node at p or one of its ancestors is marked merged, replace or preferred
Marked(p) ==
    \E q \in Prefixes(p) :
        /\ Find(root, q).found
        /\ Merged(Find(root, q).node) \/ Preferred(Find(root, q).node)

\* the leaf at p is an element of a list
ListLeaf(p) == Len(p) > 0 /\ IsList(Find(source, SubSeq(p, 1, Len(p) - 1)).node)

\* the output holds value v at path p
OutputIs(p, v) == Find(root, p).found /\ Find(root, p).node.v = v

\* the guards of Pass and Report: the driver can take a step
CanStep == (pc = "flow" /\ passes < MaxPasses) \/ pc = "stable"

\* C1 as stated: every pass after which the driver goes on has reduced an
\* Expression node, i.e. some subtree that was an Expression is one no more.
C1_EveryPassReduces ==
    [][(pc = "flow" /\ pc' = "flow") =>
          \E x \in Nodes(root) : IsExpr(x) /\ x \notin Nodes(root')]_vars

\* C1 (amended): the driver terminates: a run that has not halted can take a
\* step (the cap on the passes is never what stops it), and every pass after
\* which the driver goes on has changed the tree.
C1_Terminates ==
    /\ [](Halted \/ CanStep)
    /\ [][(pc = "flow" /\ pc' = "flow") => root' # root]_vars

\* C1 witness: the driver halted on a tree whose expression cannot progress
C1_Witness == pc = "unresolved" /\ passes >= 2 /\ ~IsResolvedNode(root)

\* C2 as stated: in the output of a flow that ended without error, every leaf
\* path of the source that a stub holds and that is not marked merged, replace
\* or preferred takes the stub's value; a leaf no stub holds keeps its source
\* value.
C2_Original ==
    (pc = "done") =>
        \A p \in LeafPaths(source) :
            /\ (FindInStubList(stubs, p).found /\ ~Marked(p))
                  => OutputIs(p, FindInStubList(stubs, p).node.v)
            /\ (~FindInStubList(stubs, p).found /\ ~Marked(p)
                  /\ ~EmbeddedDynaml(Find(source, p).node))
                  => OutputIs(p, Find(source, p).node.v)

\* C2 (amended): as above for the leaves that are no list element and whose
\* stub value is not flagged DEFAULT.
C2_StubPrecedence ==
    (pc = "done") =>
        \A p \in LeafPaths(source) :
            /\ (FindInStubList(stubs, p).found /\ ~Marked(p) /\ ~ListLeaf(p)
                  /\ "DEFAULT" \notin Flags(FindInStubList(stubs, p).node))
                  => OutputIs(p, FindInStubList(stubs, p).node.v)
            /\ (~FindInStubList(stubs, p).found /\ ~Marked(p)
                  /\ ~EmbeddedDynaml(Find(source, p).node))
                  => OutputIs(p, Find(source, p).node.v)

\* C2 witness: source {a: x, b: y} with a stub that holds a only gives {a: X, b: y}
C2_Witness ==
    /\ pc = "done"
    /\ DOMAIN source.v.m = {"a", "b"}
    /\ source.v.m["a"].v = Str("x") /\ source.v.m["b"].v = Str("y")
    /\ ~FindInStubList(stubs, <<"b">>).found
    /\ OutputIs(<<"a">>, Str("X")) /\ OutputIs(<<"b">>, Str("y"))

\* some entry of a map or element of a list below n is flagged undefined
HoldsUndefined(n) ==
    \E c \in Nodes(n) :
        \/ IsMap(c) /\ \E k \in DOMAIN c.v.m : Undefined(c.v.m[k])
        \/ IsList(c) /\ \E i \in 1..Len(c.v.l) : Undefined(c.v.l[i])

\* C3: after any number of passes no map entry and no list element of the
\* tree is a node flagged undefined.
C3_UndefinedRemoved == ~HoldsUndefined(root)

\* C3 witness: an entry and a list element that evaluated to undefined are gone
C3_Witness ==
    /\ passes >= 2
    /\ \E k \in DOMAIN source.v.m :
          /\ IsMap(source.v.m[k]) /\ "c" \in DOMAIN source.v.m[k].v.m
          /\ source.v.m[k].v.m["c"].v = Str("(( ~~ ))")
          /\ k \in DOMAIN root.v.m /\ "c" \notin DOMAIN root.v.m[k].v.m
    /\ "items" \in DOMAIN source.v.m
    /\ Len(root.v.m["items"].v.l) < Len(source.v.m["items"].v.l)

\* C4: idempotence at the fixed point: when the driver has halted on a tree
\* that holds no Expression, flowing that tree once more with the same stubs,
\* whatever the order of the map ranges and with a fresh or the kept tag
\* registry, returns a structurally equivalent tree.
C4_Idempotent ==
    (pc = "done") =>
        \A ord \in RangeOrders : \A reg \in {{}, tags} :
            EquivalentToNode(flowPass(root, stubs, reg, ord).n, root)

\* C4 witness: a resolved fixed point that several passes and a stub built
C4_Witness ==
    /\ pc = "done" /\ passes >= 3 /\ stubs # << >>
    /\ ~EquivalentToNode(root, source)
    /\ "items" \in DOMAIN root.v.m /\ Len(root.v.m["items"].v.l) >= 2

\* C5: one pass over the same tree with the same stubs gives the same tree,
\* whatever the order in which the ranges over maps visit the keys.
C5_Deterministic ==
    \A o1, o2 \in RangeOrders :
        EquivalentToNode(flowPass(root, stubs, tags, o1).n, flowPass(root, stubs, tags, o2).n)

\* the name and the scope under which flow publishes the tag of node n
TagName(n) == IF Tag(n) \in GlobalTags THEN StripStar(Tag(n)) ELSE Tag(n)
TagScope(n) == IF Tag(n) \in GlobalTags THEN TAG_SCOPE_GLOBAL ELSE TAG_SCOPE_STREAM

\* the entries of the document whose node is resolved and carries a tag
Tagged == {k \in DOMAIN root.v.m : Tag(root.v.m[k]) # "" /\ IsResolvedNode(root.v.m[k])}

\* the node carries the issue of a rejected tag
Rejected(n) == n.a.issue = "tag already defined" /\ n.a.error /\ n.a.failed

\* C6: every resolved node that carries a tag has published it, under the
\* name without the leading `*` and in the global scope for a `*` tag, in the
\* stream scope otherwise, or it carries the issue of a rejected tag and is
\* flagged error and failed, the tag being held by another path; no two
\* resolved nodes hold the same tag in one scope without an issue on one.
C6_TagUniqueness ==
    /\ \A k \in Tagged :
          IF Rejected(root.v.m[k])
          THEN \E r \in tags : /\ r.tag = TagName(root.v.m[k])
                               /\ r.scope = TagScope(root.v.m[k])
                               /\ r.path # <<k>>
          ELSE /\ root.v.m[k].a.issue = ""
               /\ [tag |-> TagName(root.v.m[k]), path |-> <<k>>,
                   scope |-> TagScope(root.v.m[k])] \in tags
    /\ \A k1, k2 \in Tagged :
          (/\ k1 # k2
           /\ TagName(root.v.m[k1]) = TagName(root.v.m[k2])
           /\ TagScope(root.v.m[k1]) = TagScope(root.v.m[k2]))
             => Rejected(root.v.m[k1]) \/ Rejected(root.v.m[k2])

\* C6 witness: two resolved nodes with the global tag g, the later one rejected
C6_Witness ==
    /\ {"a", "b"} \subseteq Tagged
    /\ Tag(root.v.m["a"]) = "*g" /\ Tag(root.v.m["b"]) = "*g"
    /\ ~Rejected(root.v.m["a"]) /\ Rejected(root.v.m["b"])
    /\ [tag |-> "g", path |-> <<"a">>, scope |-> TAG_SCOPE_GLOBAL] \in tags

\* the source holds at m a map with the optional merge as its one merge key
\* and no stub holds m
OptionalMerge ==
    /\ "m" \in DOMAIN source.v.m
    /\ "<<" \in DOMAIN source.v.m["m"].v.m
    /\ MERGEKEY \notin DOMAIN source.v.m["m"].v.m
    /\ source.v.m["m"].v.m["<<"].v = Str("(( merge ))")
    /\ ~FindInStubList(stubs, <<"m">>).found

\* the source with the merge key of m taken out of it
WithoutMergeKey == [source EXCEPT !.v.m["m"].v.m = Without(@, "<<")]

\* C7: a map with `<<: (( merge ))` and no stub value at its path flows to a
\* map without the `<<` key, without an issue, and with the entries the same
\* map without the `<<` key flows to.
C7_MergeOptional ==
    (Halted /\ OptionalMerge) =>
        /\ "m" \in DOMAIN root.v.m
        /\ IsMap(root.v.m["m"])
        /\ "<<" \notin DOMAIN root.v.m["m"].v.m
        /\ root.v.m["m"].a.issue = "" /\ ~root.v.m["m"].a.error /\ ~root.v.m["m"].a.failed
        /\ root.v.m["m"].v.m = flowFix(WithoutMergeKey, stubs, {}, MaxPasses).v.m["m"].v.m

\* C7 witness: the optional merge was flowed away next to an entry it left alone
C7_Witness ==
    /\ Halted /\ OptionalMerge
    /\ DOMAIN root.v.m["m"].v.m = {"c"}
    /\ root.v.m["m"].v.m["c"].v = Str("y")

\* the identities of the maps of sequence l, in order
Names(l) == [i \in 1..Len(l) |-> FindString(l[i], "name").name]
NameSet(l) == {Names(l)[i] : i \in 1..Len(l)}

\* the source list items starts with the inline merge, maps with a name follow,
\* and a stub holds at items a list of maps with a name
ListMerge ==
    /\ "items" \in DOMAIN source.v.m
    /\ Len(source.v.m["items"].v.l) >= 2
    /\ source.v.m["items"].v.l[1] = Inline("(( merge ))")
    /\ \A i \in 2..Len(source.v.m["items"].v.l) :
          FindString(source.v.m["items"].v.l[i], "name").ok
    /\ FindInStubList(stubs, <<"items">>).found
    /\ IsList(FindInStubList(stubs, <<"items">>).node)
    /\ \A i \in 1..Len(FindInStubList(stubs, <<"items">>).node.v.l) :
          FindString(FindInStubList(stubs, <<"items">>).node.v.l[i], "name").ok

SourceItems == Tail(source.v.m["items"].v.l)
StubItems == FindInStubList(stubs, <<"items">>).node.v.l

\* the values of the fields of a map node
Fields(e) == [k \in DOMAIN e.v.m |-> e.v.m[k].v]

\* C8 as stated: the scenario's output list is [n1, n2], the stub's order
C8_SourceFirst ==
    (Halted /\ ListMerge) =>
        Names(root.v.m["items"].v.l) = <<"n1", "n2">>

\* C8 (amended): the output list holds one element per identity of source or
\* stub, an element whose identity the stub holds has the stub's fields, and
\* the stub's new elements stand where the merge entry stood, before the
\* elements of the source.
C8_ListMerge ==
    (Halted /\ ListMerge) =>
        /\ Names(root.v.m["items"].v.l) =
              Names(SelectSeq(StubItems,
                              LAMBDA e : FindString(e, "name").name \notin NameSet(SourceItems)))
              \o Names(SourceItems)
        /\ \A i \in 1..Len(root.v.m["items"].v.l) : \A j \in 1..Len(StubItems) :
              Names(root.v.m["items"].v.l)[i] = Names(StubItems)[j]
                 => Fields(root.v.m["items"].v.l[i]) = Fields(StubItems[j])

\* C8 witness: [merge, {n1, 1}] with the stub [{n1, 9}, {n2, 2}] gave [{n2, 2}, {n1, 9}]
C8_Witness ==
    /\ Halted /\ ListMerge
    /\ Names(SourceItems) = <<"n1">> /\ Names(StubItems) = <<"n1", "n2">>
    /\ Len(root.v.m["items"].v.l) = 2
    /\ Fields(root.v.m["items"].v.l[1]) = Fields(StubElem("name", "n2", "2"))
    /\ Fields(root.v.m["items"].v.l[2]) = Fields(StubElem("name", "n1", "9"))

\* C9: a node that carries the replace flag is returned by every later pass
\* as it is, itself and its whole subtree: no stub value is laid over it.
C9_ReplaceKept ==
    [][\A k \in DOMAIN root.v.m :
          ReplaceFlag(root.v.m[k]) =>
              k \in DOMAIN root'.v.m /\ root'.v.m[k] = root.v.m[k]]_vars

\* C9 witness: a replaced node went through a later pass although a stub holds its path
C9_Witness ==
    /\ passes >= 3
    /\ \E k \in DOMAIN root.v.m :
          /\ ReplaceFlag(root.v.m[k])
          /\ FindInStubList(stubs, <<k>>).found

\* the bindings a node of the document may be flowed under
Bindings ==
    {[e EXCEPT !.noMerge = nm] :
        nm \in BOOLEAN,
        e \in UNION {{NewEnvironment(stubs, ord)} \cup
                     {WithPath(NewEnvironment(stubs, ord), k) : k \in DOMAIN root.v.m} :
                        ord \in RangeOrders}}

\* C10: _flow returns a merged node whose value is no Expression as it is,
\* for every binding, shouldOverride and enforceTemplate.
C10_MergedSkipped ==
    \A x \in Nodes(root) :
        (Merged(x) /\ ~IsExpr(x)) =>
            \A env \in Bindings : \A so, et \in BOOLEAN :
                _flow(x, env, so, et, tags) = R(x, tags)

\* C10 witness: the document holds a merged list and a merged map that a
\* stub has values for, and passes have gone over them
C10_Witness ==
    /\ passes >= 2
    /\ \E k \in DOMAIN root.v.m :
          Merged(root.v.m[k]) /\ IsList(root.v.m[k]) /\ FindInStubList(stubs, <<k>>).found
    /\ \E k \in DOMAIN root.v.m :
          Merged(root.v.m[k]) /\ IsMap(root.v.m[k]) /\ FindInStubList(stubs, <<k>>).found

\* the number of times in a row a node is flowed again
MaxReflow == 3

\* node x flowed n times in a row under the same binding
RECURSIVE flowAgain(_, _, _, _, _)
flowAgain(x, env, so, reg, n) ==
    IF n = 0 THEN x ELSE flowAgain(flow(x, env, so, FALSE, reg).n, env, so, reg, n - 1)

\* C11: a map node flagged failed with an issue, flowed again any number of
\* times under any binding, is still flagged failed and carries the same issue.
C11_ErrorsPersist ==
    \A x \in Nodes(root) :
        (IsMap(x) /\ Failed(x) /\ Issue(x) # "") =>
            \A env \in Bindings : \A so \in BOOLEAN : \A n \in 1..MaxReflow :
                /\ Failed(flowAgain(x, env, so, tags, n))
                /\ Issue(flowAgain(x, env, so, tags, n)) = Issue(x)

\* C11 witness: the map that failed on a `<<` value that is no map has lost the
\* `<<` key and went through later passes with its failure
C11_Witness ==
    /\ passes >= 3
    /\ "m" \in DOMAIN root.v.m /\ IsMap(root.v.m["m"])
    /\ "<<" \notin DOMAIN root.v.m["m"].v.m
    /\ Failed(root.v.m["m"])
    /\ Issue(root.v.m["m"]) = "require map value for '<<' insert"

\* a scalar string of the `(( ... ))` form whose body does not parse
Unparseable(x, env) ==
    EmbeddedDynaml(x) /\ ~Parse(x.v.s, env.path, env.stubPath).ok

\* C12: the dispatcher returns a string of the `(( ... ))` form whose body
\* fails to parse with an issue and with the original string, for every
\* binding and for every shouldOverride.
C12_ParseFailureIssue ==
    \A x \in Nodes(root) : \A env \in Bindings : \A so \in BOOLEAN :
        (~Merged(x) /\ ~ReplaceFlag(x) /\ Unparseable(x, env)) =>
            /\ Issue(flow(x, env, so, FALSE, tags).n) # ""
            /\ flow(x, env, so, FALSE, tags).n.v = x.v

\* a scalar string of the `(( ... ))` form whose body parses
Parseable(x, env) ==
    EmbeddedDynaml(x) /\ Parse(x.v.s, env.path, env.stubPath).ok

\* the Expression node FlowString makes of the string x
Parsed(x, env) == SubstituteNode(ExprV(Parse(x.v.s, env.path, env.stubPath).e), x)

\* C16: _flow returns a string that parses as the node holding its Expression,
\* not evaluated and not overridden, for every binding, shouldOverride and
\* enforceTemplate; the pass that parses an entry of the document leaves the
\* Expression there, and only a later pass evaluates it.
C16_ParseThenEvaluate ==
    [][/\ \A x \in Nodes(root) : \A env \in Bindings : \A so, et \in BOOLEAN :
              (~Merged(x) /\ ~ReplaceFlag(x) /\ Parseable(x, env)) =>
                  _flow(x, env, so, et, tags) = R(Parsed(x, env), tags)
       /\ \A k \in DOMAIN root.v.m :
              Parseable(root.v.m[k], WithPath(NewEnvironment(stubs, KeyOrder), k)) =>
                  /\ k \in DOMAIN root'.v.m
                  /\ root'.v.m[k] =
                        Parsed(root.v.m[k], WithPath(NewEnvironment(stubs, KeyOrder), k))]_vars

\* C16 witness: a string of the source that a stub holds a value for was an
\* Expression after the first pass and took the stub value in a later pass
C16_Witness ==
    /\ passes >= 2
    /\ \E k \in DOMAIN source.v.m :
          /\ Parseable(source.v.m[k], WithPath(NewEnvironment(stubs, KeyOrder), k))
          /\ FindInStubList(stubs, <<k>>).found
          /\ k \in DOMAIN root.v.m
          /\ root.v.m[k].v = FindInStubList(stubs, <<k>>).node.v

\* the binding the entry k of the document is flowed under
EntryEnv(k) == WithPath(NewEnvironment(stubs, KeyOrder), k)

\* the keys of the map x whose flowed value is not undefined
KeptKeys(x, env, so) ==
    {j \in DOMAIN x.v.m :
        ~Undefined(flow(x.v.m[j], WithPath(env, j), so, FALSE, tags).n)}

\* the keys of the stub map flagged INJECT
InjectKeys(stub) == {j \in DOMAIN stub.v.m : "INJECT" \in Flags(stub.v.m[j])}

\* the keys that direct a merge and are no data of the map
MergeKeys == {"<<", MERGEKEY}

\* the map x is flowed under env without a merge taking place: it is not
\* rejected for holding both merge keys, and its result is not marked as merged
NoMergeHappened(x, env, so) ==
    /\ IsMap(x) /\ ~Merged(x) /\ ~ReplaceFlag(x)
    /\ ~(MergeKeys \subseteq DOMAIN x.v.m)
    /\ "INJECTED" \notin Flags(flowMap(x, env, so, FALSE, tags).n)

\* the map flowMap has built: the body of the template if the map declares one
OutputMap(x, env, so) ==
    IF IsTemplate(flowMap(x, env, so, FALSE, tags).n)
    THEN flowMap(x, env, so, FALSE, tags).n.v.body
    ELSE flowMap(x, env, so, FALSE, tags).n

\* C17: when no merge happened and the matching stub value is a map, the
\* keys of flowMap's output are the source keys whose flowed value is not
\* undefined plus the INJECT keys of the stub missing among them; an added
\* entry is an INJECT entry of the stub, holds its value and carries INJECT
\* and INJECTED, and no entry of the source is replaced by an injected one.
C17_MapInjection ==
    \A k \in DOMAIN root.v.m : \A so \in BOOLEAN :
        (/\ NoMergeHappened(root.v.m[k], EntryEnv(k), so)
         /\ FindInStubs(EntryEnv(k), <<k>>).found
         /\ IsMap(FindInStubs(EntryEnv(k), <<k>>).node)) =>
            /\ IsMap(OutputMap(root.v.m[k], EntryEnv(k), so))
            /\ DOMAIN OutputMap(root.v.m[k], EntryEnv(k), so).v.m \ MergeKeys =
                  (KeptKeys(root.v.m[k], EntryEnv(k), so) \cup
                   InjectKeys(FindInStubs(EntryEnv(k), <<k>>).node)) \ MergeKeys
            /\ \A j \in DOMAIN OutputMap(root.v.m[k], EntryEnv(k), so).v.m :
                  IF j \in DOMAIN root.v.m[k].v.m
                  THEN "INJECTED" \in Flags(OutputMap(root.v.m[k], EntryEnv(k), so).v.m[j])
                          => "INJECTED" \in Flags(root.v.m[k].v.m[j])
                  ELSE /\ j \in InjectKeys(FindInStubs(EntryEnv(k), <<k>>).node)
                       /\ OutputMap(root.v.m[k], EntryEnv(k), so).v.m[j].v =
                             FindInStubs(EntryEnv(k), <<k>>).node.v.m[j].v
                       /\ {"INJECT", "INJECTED"} \subseteq
                             Flags(OutputMap(root.v.m[k], EntryEnv(k), so).v.m[j])

\* C17 witness: the stub map holds an INJECT key and a key without INJECT; the
\* document's map took the INJECT key only, next to its own entry
C17_Witness ==
    /\ passes >= 2
    /\ "m" \in DOMAIN source.v.m /\ DOMAIN source.v.m["m"].v.m = {"c"}
    /\ FindInStubList(stubs, <<"m">>).found
    /\ InjectKeys(FindInStubList(stubs, <<"m">>).node) = {"b"}
    /\ "c" \in DOMAIN FindInStubList(stubs, <<"m">>).node.v.m
    /\ "m" \in DOMAIN root.v.m /\ DOMAIN root.v.m["m"].v.m = {"b", "c"}
    /\ {"INJECT", "INJECTED"} \subseteq Flags(root.v.m["m"].v.m["b"])

\* the number of elements of the list l that hold the value v
RECURSIVE Occurrences(_, _)
Occurrences(l, v) ==
    IF Len(l) = 0 THEN 0
    ELSE (IF Head(l).v = v THEN 1 ELSE 0) + Occurrences(Tail(l), v)

\* C18: after any number of passes every INJECT element of the matching stub
\* list occurs at most once in the list of the output.
C18_InjectOnce ==
    \A k \in DOMAIN root.v.m :
        (/\ IsList(root.v.m[k])
         /\ FindInStubList(stubs, <<k>>).found
         /\ IsList(FindInStubList(stubs, <<k>>).node)) =>
            \A i \in 1..Len(injectedElements(FindInStubList(stubs, <<k>>).node)) :
                Occurrences(root.v.m[k].v.l,
                            injectedElements(FindInStubList(stubs, <<k>>).node)[i].v) <= 1

\* the data of a node without its annotations
RECURSIVE Plain(_)
Plain(n) ==
    IF IsMap(n) THEN [k \in DOMAIN n.v.m |-> Plain(n.v.m[k])]
    ELSE IF IsList(n) THEN [i \in 1..Len(n.v.l) |-> Plain(n.v.l[i])]
    ELSE n.v

\* the source list items holds the inline entry `<<: (( merge replace ))` and
\* a stub holds a list at items
ReplaceMerge ==
    /\ "items" \in DOMAIN source.v.m
    /\ \E i \in 1..Len(source.v.m["items"].v.l) :
          source.v.m["items"].v.l[i] = Inline("(( merge replace ))")
    /\ FindInStubList(stubs, <<"items">>).found
    /\ IsList(FindInStubList(stubs, <<"items">>).node)

\* C19: the list whose inline merge entry resolved to a sequence with the
\* replace flag is that sequence, every element of it in order, and nothing
\* of the source list, wherever the merge entry stood.
C19_ReplaceSplice ==
    (pc = "done" /\ ReplaceMerge) =>
        Plain(root.v.m["items"]) = Plain(FindInStubList(stubs, <<"items">>).node)

\* the `<<` value of the map x is a string that declares the map a template
DeclaresTemplate(x, env) ==
    /\ IsMap(x) /\ ~Merged(x) /\ ~ReplaceFlag(x)
    /\ "<<" \in DOMAIN x.v.m /\ MERGEKEY \notin DOMAIN x.v.m
    /\ Parseable(x.v.m["<<"], env)
    /\ Parse(x.v.m["<<"].v.s, env.path, env.stubPath).e.t = "marker"
    /\ Parse(x.v.m["<<"].v.s, env.path, env.stubPath).e.template

\* the expression the template marker of the map x wraps, NoExpr if none
Wrapped(x, env) == Parse(x.v.m["<<"].v.s, env.path, env.stubPath).e.inner

\* the node t is a TemplateValue of the map x made under the binding env
TemplateOf(t, x, env) ==
    /\ IsTemplate(t)
    /\ t.v.env = env
    /\ IsMap(t.v.body)
    /\ \A j \in DOMAIN x.v.m \ {"<<"} :
          j \in DOMAIN t.v.body.v.m /\ t.v.body.v.m[j] = x.v.m[j]
    /\ ("<<" \in DOMAIN t.v.body.v.m) <=> (Wrapped(x, env) # NoExpr)
    /\ (Wrapped(x, env) # NoExpr) => t.v.body.v.m["<<"].v = ExprV(Wrapped(x, env))

\* C20: a map whose `<<` value is a marker declaring TEMPLATE flows to a
\* TemplateValue that holds every entry of the map as it was, holds `<<` only
\* with the expression the marker wraps, and captures the binding the map was
\* flowed under, not the one scoped to its entries; the pass over the
\* document leaves this TemplateValue at the place of the map.
C20_TemplateMap ==
    [][/\ \A x \in Nodes(root) : \A env \in Bindings : \A so, et \in BOOLEAN :
              DeclaresTemplate(x, env) =>
                  TemplateOf(_flow(x, env, so, et, tags).n, x, env)
       /\ \A k \in DOMAIN root.v.m :
              DeclaresTemplate(root.v.m[k], EntryEnv(k)) =>
                  /\ k \in DOMAIN root'.v.m
                  /\ \E ord \in RangeOrders :
                        TemplateOf(root'.v.m[k], root.v.m[k],
                                   WithPath(WithScope(NewEnvironment(stubs, ord), root.v.m), k))]_vars

\* C20 witness: the map {<<: (( &template ))}, c: (( val ))} is a TemplateValue
\* whose body holds c unevaluated and no `<<`, after further passes
C20_Witness ==
    /\ passes >= 2
    /\ "m" \in DOMAIN source.v.m /\ "<<" \in DOMAIN source.v.m["m"].v.m
    /\ source.v.m["m"].v.m["<<"].v = Str("(( &template ))")
    /\ "m" \in DOMAIN root.v.m /\ IsTemplate(root.v.m["m"])
    /\ DOMAIN root.v.m["m"].v.body.v.m = {"c"}
    /\ root.v.m["m"].v.body.v.m["c"].v = Str("(( val ))")
    /\ root.v.m["m"].v.env.scope = <<source.v.m>>

(***************************************************************************)
(* The control `for`: one element per tuple of the ranges                  *)
(***************************************************************************)
\* the document {for: def, do: body}
ForDoc(def, body) == SMap(Join(Entry("for", def), Entry("do", S(Str(body)))))

\* the number of values of one range
RangeSize(v) ==
    IF IsList(v) THEN Len(v.v.l) ELSE IF IsMap(v) THEN Cardinality(DOMAIN v.v.m) ELSE 0

\* the sizes of the ranges the definition def declares
RangeSizes(def) ==
    IF IsMap(def)
    THEN [i \in 1..Len(RangeKeys(def.v.m, KeyOrder)) |->
             RangeSize(def.v.m[RangeKeys(def.v.m, KeyOrder)[i]])]
    ELSE [i \in 1..Len(def.v.l) |-> RangeSize(def.v.l[i].v.m["values"])]

RECURSIVE Product(_)
Product(s) == IF Len(s) = 0 THEN 1 ELSE Head(s) * Product(Tail(s))

\* the scalars of a list of strings
ListStrings(n) == [i \in 1..Len(n.v.l) |-> n.v.l[i].v.s]

\* for: {i: [1, 2, 3]} with do: (( i * i ))
Squares == ForDoc(SMap(Entry("i", SList(<<"1", "2", "3">>))), "(( i * i ))")

\* C13: a `for` control without mapkey whose evaluations all succeed yields a
\* sequence with one element per tuple of the Cartesian product of its ranges:
\* its length is the product of the range lengths, 1 for no range variable at
\* all, and {i: [1, 2, 3]} with (( i * i )) yields [1, 4, 9].
C13_CartesianProduct ==
    (pc = "done" /\ "mapkey" \notin DOMAIN source.v.m) =>
        /\ IsList(root)
        /\ Len(root.v.l) = Product(RangeSizes(source.v.m["for"]))
        /\ (source = Squares => ListStrings(root) = <<"1", "4", "9">>)

\* the squares have been computed
C13_Witness ==
    /\ pc = "done"
    /\ source = Squares
    /\ IsList(root)
    /\ ListStrings(root) = <<"1", "4", "9">>

(***************************************************************************)
(* The control `for`: the names of the variables                           *)
(***************************************************************************)
\* the name is not empty and all its characters are of the class [a-zA-Z0-9_]
WellFormedName(n) ==
    /\ Len(Chars(n)) > 0
    /\ \A c \in 1..Len(Chars(n)) : Chars(n)[c] \in NameChars

\* the map form def declares a range or index variable whose name is malformed
MalformedNames(def) ==
    /\ IsMap(def)
    /\ \E k \in DOMAIN def.v.m :
          /\ Len(SplitSpec(k)) \in {1, 2}
          /\ \E p \in 1..Len(SplitSpec(k)) : ~WellFormedName(SplitSpec(k)[p])

\* C14: a `for` control that declares a variable whose name is empty or holds
\* a character outside [A-Za-z0-9_] is never iterated: no pass replaces it by
\* a result, and the run ends with the control issue.
C14_NamesChecked ==
    MalformedNames(source.v.m["for"]) =>
        /\ root.v.k = "map"
        /\ pc \notin {"done", "panic"}
        /\ (pc = "unresolved" => Issue(root) # "")

(***************************************************************************)
(* The control `for`: the order of the tuples                              *)
(***************************************************************************)
\* the variable the key k of the map form declares
VarOf(k) == SplitSpec(k)[Len(SplitSpec(k))]

\* the place of the name n in the lexicographic order
NameRank(n) == CHOOSE i \in 1..Len(NameOrder) : NameOrder[i] = n

\* the keys ks in the lexicographic order of their variables
RECURSIVE ByName(_)
ByName(ks) ==
    IF ks = {} THEN << >>
    ELSE LET k == CHOOSE x \in ks : \A o \in ks : NameRank(VarOf(x)) <= NameRank(VarOf(o))
         IN  <<k>> \o ByName(ks \ {k})

\* the values of a range in the order they are iterated
RangeValues(v) ==
    IF IsList(v) THEN v.v.l
    ELSE [i \in 1..Len(GetSortedKeys(v.v.m)) |-> v.v.m[GetSortedKeys(v.v.m)[i]]]

\* the bindings of the nested loops over the keys ks, the first key outermost
RECURSIVE NestedLoop(_, _, _)
RECURSIVE LoopFrom(_, _, _, _)
NestedLoop(ks, def, inp) ==
    IF Len(ks) = 0 THEN <<inp>> ELSE LoopFrom(ks, def, inp, 1)

LoopFrom(ks, def, inp, i) ==
    IF i > Len(RangeValues(def[Head(ks)])) THEN << >>
    ELSE NestedLoop(Tail(ks), def, With(inp, VarOf(Head(ks)), RangeValues(def[Head(ks)])[i]))
         \o LoopFrom(ks, def, inp, i + 1)

\* the value of the body under the binding inp
BodyValue(body, inp) ==
    IF body \in DynamlStrings
    THEN Evaluate(Parse(body, << >>, << >>).e,
                  WithLocalScope(NewEnvironment(<< >>, KeyOrder), inp)).value
    ELSE Str(body)

\* the values a nested loop over the sorted variables of def yields
NestedLoopValues(def, body) ==
    [t \in 1..Len(NestedLoop(ByName(DOMAIN def), def, << >>)) |->
        BodyValue(body, NestedLoop(ByName(DOMAIN def), def, << >>)[t])]

\* for: {"x,i": [1, 2], j: [a, b]} with do: (( i j )): the key of j comes
\* before the key of i, the name i before the name j
Pairs ==
    ForDoc(SMap(Join(Entry("x,i", SList(<<"1", "2">>)), Entry("j", SList(<<"a", "b">>)))),
           "(( i j ))")

\* C15: the results of the map form of `for` come in the order of the nested
\* loops over the variables sorted by name, the smallest name outermost and
\* the largest running fastest, whatever the order the keys of the map are
\* visited in.
C15_SortedRanges ==
    (/\ pc = "done"
     /\ IsMap(source.v.m["for"])
     /\ "mapkey" \notin DOMAIN source.v.m) =>
        /\ IsList(root)
        /\ [t \in 1..Len(root.v.l) |-> root.v.l[t].v]
               = NestedLoopValues(source.v.m["for"].v.m, source.v.m["do"].v.s)

\* the pairs came with i outermost
C15_Witness ==
    /\ pc = "done"
    /\ source = Pairs
    /\ IsList(root)
    /\ ListStrings(root) = <<"1a", "1b", "2a", "2b">>

\* the identity of the list element el under the key name key: the field as
\* the map holds it, flowed at the element's index step if it is an Expression
Identity(el, key, idx, env) ==
    IF IsMap(el) /\ key \in DOMAIN el.v.m
    THEN IF IsExpr(el.v.m[key])
         THEN flow(el.v.m[key], WithPath(env, IndexStep(idx)), FALSE, FALSE, tags).n
         ELSE el.v.m[key]
    ELSE NewNode(Nil, "")

\* the key names a list can carry
KeyNames == {"", "id", "key:id"}

\* C21: for the element at index i of any list of the document, stepName
\* returns <keyName>:<identity> exactly when the element is a map whose
\* identity field (keyName, by default name) resolves to a string, and [i]
\* otherwise; an identity that is still an Expression after flowing it makes
\* the step unresolved, and flowList then keeps the element as it is, not flowed.
C21_StepName ==
    \A l \in {n \in Nodes(root) : IsList(n)} : \A i \in 1..Len(l.v.l) :
    \A kn \in KeyNames : \A env \in Bindings :
        /\ stepName(i - 1, l.v.l[i], kn, env, tags).step =
              (IF IsString(Identity(l.v.l[i], ListKey(kn), i - 1, env))
               THEN ListKey(kn) \o ":" \o Identity(l.v.l[i], ListKey(kn), i - 1, env).v.s
               ELSE IndexStep(i - 1))
        /\ stepName(i - 1, l.v.l[i], kn, env, tags).resolved =
              ~IsExpr(Identity(l.v.l[i], ListKey(kn), i - 1, env))
        /\ IsExpr(Identity(l.v.l[i], ListKey(kn), i - 1, env)) =>
              /\ flowElement(l.v.l[i], env,
                             stepName(i - 1, l.v.l[i], kn, env, tags)).n = l.v.l[i]
              /\ addElement([newList |-> << >>, t |-> tags],
                            flowElement(l.v.l[i], env,
                                        stepName(i - 1, l.v.l[i], kn, env, tags))).newList
                    = <<l.v.l[i]>>

\* C21 witness: the element {name: (( fail )), v: (( val ))} went through a
\* later pass with its name unresolved, so that v is the Expression still,
\* while the element named by (( val )) was flowed at the step name:val
C21_Witness ==
    /\ passes >= 3
    /\ "items" \in DOMAIN root.v.m /\ IsList(root.v.m["items"])
    /\ Len(root.v.m["items"].v.l) = 1
    /\ IsMap(root.v.m["items"].v.l[1])
    /\ {"name", "v"} \subseteq DOMAIN root.v.m["items"].v.l[1].v.m
    /\ IsExpr(root.v.m["items"].v.l[1].v.m["name"])
    /\ IsExpr(root.v.m["items"].v.l[1].v.m["v"])
    /\ Parse("(( val ))", << >>, << >>).e = root.v.m["items"].v.l[1].v.m["v"].v.e

\* the binding of the node at path p below the binding env
RECURSIVE EnvAt(_, _)
EnvAt(env, p) == IF Len(p) = 0 THEN env ELSE EnvAt(WithPath(env, Head(p)), Tail(p))

\* the paths of the nodes of the document
NodePaths == UNION {Prefixes(p) : p \in LeafPaths(root)}

\* the bindings of the node at path p: merging on or off, either range order
BindingsAt(p) ==
    {[EnvAt(NewEnvironment(stubs, ord), p) EXCEPT !.noMerge = nm] :
        nm \in BOOLEAN, ord \in RangeOrders}

\* the stub value at the stub path of env is flagged DEFAULT
DefaultStub(env) ==
    FindInStubs(env, env.stubPath).found /\
    "DEFAULT" \in Flags(FindInStubs(env, env.stubPath).node)

\* C22: the override step returns the node it is given unchanged when the
\* stub value at the node's path is flagged DEFAULT and when the node is
\* flagged INJECTED, whatever key name, replace mark and shouldOverride it is
\* called with; _flow so returns a plain scalar of the document as it is.
C22_OverrideGuards ==
    \A p \in NodePaths : \A env \in BindingsAt(p) : \A so, rep \in BOOLEAN :
    \A kn \in KeyNames :
        (DefaultStub(env) \/ "INJECTED" \in Flags(Find(root, p).node)) =>
            /\ stubOverride(Find(root, p).node, env, FALSE, kn, rep, NoPath,
                            Flags(Find(root, p).node), so) = Find(root, p).node
            /\ (IsString(Find(root, p).node) /\ ~EmbeddedDynaml(Find(root, p).node)) =>
                  _flow(Find(root, p).node, env, so, FALSE, tags).n = Find(root, p).node

\* C22 witness: the flow ended with the entry a holding its own value although
\* a stub holds a DEFAULT value for it, and with the injected entry m.b that
\* the stub holds a value for
C22_Witness ==
    /\ pc = "done"
    /\ DefaultStub(EnvAt(NewEnvironment(stubs, KeyOrder), <<"a">>))
    /\ OutputIs(<<"a">>, Str("val"))
    /\ Find(root, <<"m", "b">>).found
    /\ "INJECTED" \in Flags(Find(root, <<"m", "b">>).node)
    /\ FindInStubList(stubs, <<"m", "b">>).found

\* the evaluation of the Expression node x as the dispatcher starts it
Evaluated(x, env, et) ==
    exprEvaluate(exprTagged(x, asTemplate(x.v.e, et)), env, x.v.e, asTemplate(x.v.e, et))

\* x ends up with the DYNAMIC flag, from the node or from the evaluation
\* Info, and the evaluated value is no TemplateValue
DynamicNonTemplate(x, env, et) ==
    /\ "DYNAMIC" \in (Flags(x) \cup Evaluated(x, env, et).info.NodeFlags)
    /\ Evaluated(x, env, et).value.k # "template"

\* the node the Expression case of the dispatcher has made of x carries the
\* error `dynamic marker for non-template value node` and is an Expression still
DynamicError(x, env, so, et) ==
    /\ Issue(flowExpression(x, env, so, et).n) = "dynamic marker for non-template value node"
    /\ flowExpression(x, env, so, et).n.a.error
    /\ IsExpr(flowExpression(x, env, so, et).n)

MergeExpression(e) ==
    e # NoExpr /\ (e.t = "merge" \/ (e.t = "marker" /\ e.inner # NoExpr /\ e.inner.t = "merge"))

\* no node below n is a merge expression, parsed or still to be parsed, and
\* none is a template or retains one
RECURSIVE MergeFree(_)
MergeFree(n) ==
    /\ Template(n) = Nil
    /\ CASE IsMap(n) -> \A k \in DOMAIN n.v.m : MergeFree(n.v.m[k])
         [] IsList(n) -> \A i \in 1..Len(n.v.l) : MergeFree(n.v.l[i])
         [] IsExpr(n) -> ~MergeExpression(n.v.e)
         [] IsString(n) ->
               ~(EmbeddedDynaml(n) /\ Parse(n.v.s, << >>, << >>).ok
                 /\ MergeExpression(Parse(n.v.s, << >>, << >>).e))
         [] IsTemplate(n) -> FALSE
         [] OTHER -> TRUE

\* the binding of entry k over the stubs ss with the noMerge switch set
NoMergeEnv(ss, k) == [WithPath(NewEnvironment(ss, KeyOrder), k) EXCEPT !.noMerge = TRUE]

\* C24: with the noMerge switch set, flowing an entry of the document that
\* holds no merge expression gives the same node for any two stub sequences,
\* which is the node that no stubs at all give.
C24_NoMergeIsolation ==
    \A k \in DOMAIN root.v.m : \A ss \in StubSeqs : \A so \in BOOLEAN :
        MergeFree(root.v.m[k]) =>
            flow(root.v.m[k], NoMergeEnv(ss, k), so, FALSE, tags).n =
               flow(root.v.m[k], NoMergeEnv(<< >>, k), so, FALSE, tags).n

\* the flowed value of the merge key of the map x, as flowMap computes it
MergeValue(x, env) ==
    _flow(x.v.m[mergeKeyOf(x.v.m)], WithScope(env, x.v.m), FALSE, FALSE, tags).n

\* the map x holds one merge key and its value flows to a resolved value
ResolvedMerge(x, env) ==
    /\ IsMap(x)
    /\ mergeKeyOf(x.v.m) \in DOMAIN x.v.m
    /\ ~(MergeKeys \subseteq DOMAIN x.v.m)
    /\ ~IsExpr(MergeValue(x, env)) /\ ~Undefined(MergeValue(x, env))

\* C25 as stated: the map node flowMap returns carries the redirect path of
\* the resolved value V of its merge key, is flagged replace if V is, and
\* reports Merged() if V carries the merged flag.
C25_MergeAttributes ==
    \A p \in NodePaths : \A env \in BindingsAt(p) : \A so \in BOOLEAN :
        ResolvedMerge(Find(root, p).node, env) =>
            /\ RedirectPath(MergeValue(Find(root, p).node, env)) # NoPath =>
                  RedirectPath(flowMap(Find(root, p).node, env, so, FALSE, tags).n) =
                     RedirectPath(MergeValue(Find(root, p).node, env))
            /\ ReplaceFlag(MergeValue(Find(root, p).node, env)) =>
                  ReplaceFlag(flowMap(Find(root, p).node, env, so, FALSE, tags).n)
            /\ MergeValue(Find(root, p).node, env).a.merged =>
                  Merged(flowMap(Find(root, p).node, env, so, FALSE, tags).n)

\* C25 (amended): the map node flowMap returns carries the redirect path of
\* the resolved value V of its merge key and is flagged replace if V is, and
\* in both cases reports Merged(); for every V that reports Merged(), the
\* merged flag alone included, the map node is flagged INJECTED.
C25_MergeMarks ==
    \A p \in NodePaths : \A env \in BindingsAt(p) : \A so \in BOOLEAN :
        ResolvedMerge(Find(root, p).node, env) =>
            /\ RedirectPath(MergeValue(Find(root, p).node, env)) # NoPath =>
                  /\ RedirectPath(flowMap(Find(root, p).node, env, so, FALSE, tags).n) =
                        RedirectPath(MergeValue(Find(root, p).node, env))
                  /\ Merged(flowMap(Find(root, p).node, env, so, FALSE, tags).n)
            /\ ReplaceFlag(MergeValue(Find(root, p).node, env)) =>
                  /\ ReplaceFlag(flowMap(Find(root, p).node, env, so, FALSE, tags).n)
                  /\ Merged(flowMap(Find(root, p).node, env, so, FALSE, tags).n)
            /\ Merged(MergeValue(Find(root, p).node, env)) =>
                  "INJECTED" \in Flags(flowMap(Find(root, p).node, env, so, FALSE, tags).n)

\* C25 witness: the map {<<: (( merge m )), c: y} has taken the stub's map and
\* carries the redirect path m of the merge value, so that it reports Merged()
C25_Witness ==
    /\ pc = "done"
    /\ "m" \in DOMAIN source.v.m /\ "<<" \in DOMAIN source.v.m["m"].v.m
    /\ source.v.m["m"].v.m["<<"].v = Str("(( merge m ))")
    /\ "m" \in DOMAIN root.v.m /\ IsMap(root.v.m["m"])
    /\ RedirectPath(root.v.m["m"]) = <<"m">>
    /\ Merged(root.v.m["m"])
    /\ "INJECTED" \in Flags(root.v.m["m"])
    /\ "b" \in DOMAIN root.v.m["m"].v.m

\* C26: flowMap returns a map that holds both merge keys as it is, with the
\* issue `multiple merge keys not allowed`, flagged error and failed: its
\* entries are the input's, none flowed, merged or injected, and no tag is
\* published; a pass of the driver leaves such an entry of the document so.
C26_MultipleMergeKeys ==
    [][/\ \A p \in NodePaths : \A env \in BindingsAt(p) : \A so, tpl \in BOOLEAN :
              (IsMap(Find(root, p).node) /\ MergeKeys \subseteq DOMAIN Find(root, p).node.v.m) =>
                  /\ flowMap(Find(root, p).node, env, so, tpl, tags).n =
                        IssueNode(Find(root, p).node, TRUE, TRUE,
                                  "multiple merge keys not allowed")
                  /\ flowMap(Find(root, p).node, env, so, tpl, tags).n.v = Find(root, p).node.v
                  /\ flowMap(Find(root, p).node, env, so, tpl, tags).t = tags
       /\ \A k \in DOMAIN root.v.m :
              (pc = "flow" /\ IsMap(root.v.m[k]) /\ MergeKeys \subseteq DOMAIN root.v.m[k].v.m) =>
                  /\ k \in DOMAIN root'.v.m
                  /\ root'.v.m[k].v = root.v.m[k].v
                  /\ Issue(root'.v.m[k]) = "multiple merge keys not allowed"
                  /\ root'.v.m[k].a.error /\ Failed(root'.v.m[k])]_vars

\* C26 witness: the flow halted with the map that holds both merge keys as
\* the source has it, next to a stub that holds entries for it
C26_Witness ==
    /\ pc = "unresolved" /\ passes >= 2
    /\ "m" \in DOMAIN root.v.m
    /\ MergeKeys \subseteq DOMAIN root.v.m["m"].v.m
    /\ root.v.m["m"].v = source.v.m["m"].v
    /\ Issue(root.v.m["m"]) = "multiple merge keys not allowed"
    /\ Failed(root.v.m["m"]) /\ root.v.m["m"].a.error
    /\ FindInStubList(stubs, <<"m", "b">>).found
    /\ "INJECT" \in Flags(FindInStubList(stubs, <<"m", "b">>).node)

\* the regular fields and the options of the control map node, as the
\* registration of the control (`*do`, `*mapkey`) splits its entries
ForFields(node) == DOMAIN node.v.m \ ({"for"} \cup ForOptions)
ForOpts(node) == [k \in DOMAIN node.v.m \cap ForOptions |-> node.v.m[k]]

\* flowFor applied to the control map node under the binding env
ForOutcome(node, env) ==
    flowFor(node.v.m["for"], node, ForFields(node), ForOpts(node), env)

\* the outcome r is the control issue msg on node: the node as it is with the
\* issue, flagged error and failed, and nothing of an iteration
IsControlIssue(r, node, msg) ==
    /\ r.n = IssueNode(node, TRUE, TRUE, msg)
    /\ r.n.v = node.v
    /\ ~r.ok /\ ~r.panic

\* C27: flowFor answers a control with a regular field by the control issue
\* `no regular fields allowed in for control`, and a control without regular
\* fields whose range definition is resolved and which has no `do` by the
\* control issue `do fields required in for control`; no iteration is made,
\* and the run over such a document never ends with a result or a panic.
C27_ShapeErrors ==
    IsControl(root) =>
        /\ \A env \in Bindings :
              /\ ForFields(root) # {} =>
                    IsControlIssue(ForOutcome(root, env), root,
                                   "no regular fields allowed in for control")
              /\ (ForFields(root) = {} /\ IsResolvedNode(root.v.m["for"])
                    /\ "do" \notin DOMAIN root.v.m) =>
                    IsControlIssue(ForOutcome(root, env), root,
                                   "do fields required in for control")
        /\ (ForFields(source) # {} /\ passes >= 1) =>
              /\ IsMap(root) /\ pc \notin {"done", "panic"}
              /\ Issue(root) = "no regular fields allowed in for control"
        /\ (ForFields(source) = {} /\ "do" \notin DOMAIN source.v.m /\ passes >= 1) =>
              /\ IsMap(root) /\ pc \notin {"done", "panic"}
              /\ Issue(root) = "do fields required in for control"

\* C27 witness: the run over {for: {i: []}, do: (( i )), z: x} ended with the
\* issue of the regular field; an iteration over the empty range would have
\* ended in a panic
C27_Witness ==
    /\ pc = "unresolved"
    /\ IsControl(root) /\ ForFields(root) = {"z"}
    /\ IsMap(root.v.m["for"]) /\ DOMAIN root.v.m["for"].v.m = {"i"}
    /\ IsList(root.v.m["for"].v.m["i"]) /\ Len(root.v.m["for"].v.m["i"].v.l) = 0
    /\ IsTemplate(root.v.m["do"])
    /\ Issue(root) = "no regular fields allowed in for control"
    /\ Failed(root)

\* the scopes of the tuples the loop of flowFor visits, from the positions cur on
RECURSIVE TupleScopes(_, _, _)
TupleScopes(ranges, cur, env) ==
    <<WithLocalScope(env, forInput(ranges, cur, 1, << >>))>> \o
    (IF forAdvance(ranges, cur, 0).stop THEN << >>
     ELSE TupleScopes(ranges, forAdvance(ranges, cur, 0).cur, env))

\* flowFor gets as far as its loop for the control node under env, and every
\* range of the loop has an iterator
ReachesLoop(node, env) ==
    /\ ForFields(node) = {} /\ IsResolvedNode(node.v.m["for"])
    /\ "do" \in DOMAIN node.v.m /\ IsResolvedNode(node.v.m["do"])
    /\ "mapkey" \in DOMAIN node.v.m => IsTemplate(node.v.m["mapkey"])
    /\ forRanges(node.v.m["for"], env).err = ""
    /\ \A i \in 1..Len(forRanges(node.v.m["for"], env).rs) :
          ~forRanges(node.v.m["for"], env).rs[i].it.nil

\* the scopes of all tuples of the control node
ForScopes(node, env) ==
    TupleScopes(forRanges(node.v.m["for"], env).rs,
                [i \in 1..Len(forRanges(node.v.m["for"], env).rs) |-> 0], env)

\* the evaluations of map key and body that failed under the scope s
FailedIn(node, s) ==
    (IF "mapkey" \in DOMAIN node.v.m /\ ~forEvaluate(ForOpts(node), "mapkey", s).ok
     THEN 1 ELSE 0) +
    (IF IsTemplate(node.v.m["do"]) /\ ~forEvaluate(ForOpts(node), "do", s).ok
     THEN 1 ELSE 0)

RECURSIVE SumFailed(_, _)
SumFailed(node, ss) ==
    IF Len(ss) = 0 THEN 0 ELSE FailedIn(node, Head(ss)) + SumFailed(node, Tail(ss))

\* map key and body of every tuple evaluated to a value that is no expression
AllEvaluated(node, ss) ==
    \A i \in 1..Len(ss) :
        /\ "mapkey" \in DOMAIN node.v.m =>
              /\ forEvaluate(ForOpts(node), "mapkey", ss[i]).ok
              /\ forEvaluate(ForOpts(node), "mapkey", ss[i]).value.k = "str"
        /\ IsTemplate(node.v.m["do"]) =>
              /\ forEvaluate(ForOpts(node), "do", ss[i]).ok
              /\ forEvaluate(ForOpts(node), "do", ss[i]).value.k # "expr"

\* what the loop of flowFor has gathered for the control node
LoopState(node, env) ==
    forLoop(node, forRanges(node.v.m["for"], env).rs,
            [i \in 1..Len(forRanges(node.v.m["for"], env).rs) |-> 0],
            "mapkey" \in DOMAIN node.v.m, ForOpts(node), env,
            [list |-> << >>, map |-> << >>, key |-> "", done |-> TRUE,
             nested |-> << >>, panic |-> FALSE])

\* C28: flowFor, where it returns, gives a list or a map with ok=true only if
\* range definition, `do` and `mapkey` are resolved and map key and body of
\* every tuple evaluated to a value; otherwise it gives the control node with
\* its value untouched and ok=false, and if an evaluation failed, with the
\* issue `error evaluationg for body` that holds one nested issue per failed
\* evaluation.
C28_AllOrNothing ==
    IsControl(root) =>
        \A env \in Bindings :
            ~ForOutcome(root, env).panic =>
                /\ ForOutcome(root, env).ok =>
                      /\ ReachesLoop(root, env)
                      /\ AllEvaluated(root, ForScopes(root, env))
                      /\ IsList(ForOutcome(root, env).n) \/ IsMap(ForOutcome(root, env).n)
                /\ ~ForOutcome(root, env).ok => ForOutcome(root, env).n.v = root.v
                /\ (ReachesLoop(root, env) /\ SumFailed(root, ForScopes(root, env)) > 0) =>
                      /\ Issue(ForOutcome(root, env).n) = "error evaluationg for body"
                      /\ Len(LoopState(root, env).nested) =
                            SumFailed(root, ForScopes(root, env))

\* C29: flowFor returns a node for every control whose range values are lists
\* or maps, the empty ones included: neither the call of flowFor on a control
\* node of the document nor a pass of the driver ends in the read of a range
\* that has no iterator.
C29_EmptyRanges ==
    /\ pc # "panic"
    /\ IsControl(root) => \A env \in Bindings : ~ForOutcome(root, env).panic

\* the binding _flow works with: the redirect path of the node replaces the stub path
EffEnv(x, env) ==
    IF RedirectPath(x) # NoPath THEN RedirectOverwrite(env, RedirectPath(x)) ELSE env

\* the Expression node x is evaluated by the dispatcher under env and the
\* evaluation returns ok=false
FailedExpression(x, env) ==
    IsExpr(x) /\ ~ReplaceFlag(x) /\ ~Evaluated(x, EffEnv(x, env), FALSE).ok

\* the node n is the failed Expression x: its value kept, the issue of the
\* evaluation on it, the error flag set
FailedKept(n, x, env) ==
    /\ IsExpr(n) /\ n.v = x.v
    /\ n.a.error
    /\ Issue(n) # ""
    /\ Evaluated(x, EffEnv(x, env), FALSE).info.Issue # "" =>
          Issue(n) = Evaluated(x, EffEnv(x, env), FALSE).info.Issue

\* the stubs hold a value that is not flagged DEFAULT at the stub path of env
StubValue(env) ==
    FindInStubs(env, env.stubPath).found /\
    "DEFAULT" \notin Flags(FindInStubs(env, env.stubPath).node)

\* the node n is the stub value at the stub path of env, without any issue
IsStubValue(n, env) ==
    /\ n.v = substituteNode(FindInStubs(env, env.stubPath).node).v
    /\ Issue(n) = "" /\ ~n.a.error

====
